---- MODULE Spec2Model ----
(***************************************************************************)
(* Bus-Transport-Details-Project: the proximity geofencing core of         *)
(* server.js (usage governor, debounced route rebuild scheduler, route     *)
(* polyline cache, check-availability handler) and routeCacheManager.js    *)
(* (database route cache with a 2 hour refresh).                           *)
(*                                                                         *)
(* Time is counted in hours: Date.now() is the variable now, one Tick is   *)
(* one hour.  Environment-configurable limits (parseInt(process.env...))   *)
(* are configured to small values; the fixed constants of the code         *)
(* (the hour window, ROUTE_CACHE_REFRESH_HOURS) keep their values.         *)
(* Coordinates are positions on a line, in units of 500 metres.            *)
(***************************************************************************)
EXTENDS Integers, Sequences, FiniteSets, TLC

\* ---------------------------------------------------------------- bounds
\* number of hours explored after the process started
Horizon == 5
\* rebuild signals counted while one timer is pending (the count saturates)
MaxPending == 2
\* bus ids the database hands out (autoincrement, never reused)
MaxBuses == 2
\* times the process is started again
MaxRestarts == 1
\* login attempts one window's record counts (further attempts are not explored)
MaxLoginCount == 4
\* points of a polyline handed to the decoder
MaxPolylinePoints == 2

\* ------------------------------------------------------ program constants
\* server.js:214  const hourWindow = 60 * 60 * 1000  (one hour)
hourWindow == 1
\* server.js:195  LOGIN_MAX_ATTEMPTS (env, configured to 2)
LOGIN_MAX_ATTEMPTS == 2
\* server.js:196  LOGIN_WINDOW_MS (env, configured to two hours)
LOGIN_WINDOW_MS == 2
\* server.js:193  AVAILABILITY_RATE_LIMIT_PER_HOUR (env, configured to 3)
AVAILABILITY_LIMIT_PER_HOUR == 3
\* server.js:194  AVAILABILITY_LIMIT_PER_CONTACT_PER_HOUR (env, configured to 2)
AVAILABILITY_LIMIT_PER_CONTACT_PER_HOUR == 2
\* server.js:202  googleUsage.limit = GOOGLE_MAPS_DAILY_LIMIT (env, configured to 2)
GOOGLE_MAPS_DAILY_LIMIT == 2
\* server.js:462  ROUTE_BUILD_COOLDOWN_MS (env, configured to 2 hours)
ROUTE_BUILD_COOLDOWN_MS == 2
\* routeCacheManager.js:4
ROUTE_CACHE_REFRESH_HOURS == 2
\* hours in a calendar day: toISOString().slice(0,10) changes every 24 hours
DayLen == 24
\* server.js:1815  findNearbyBusesDb(userLocation, 1.5): the radius in metres
RadiusMeters == 1500
\* metres per unit of position
MetersPerUnit == 500

\* the process starts two hours before midnight (UTC), so that the calendar
\* day changes inside the horizon
StartTime == DayLen - 2
MaxTime == StartTime + Horizon

\* --------------------------------------------------------------- domains
IPs == {"ip1"}
\* contacts as sent by the user (an email address, a phone number)
RawContacts == {"A@X.io", "9000000001"}
NoContact == "none"
BadContact == "not-a-contact"
BusIds == 1..MaxBuses
\* no decodePolyline call is running
NoCall == [pc |-> "idle"]
\* check-availability requests that may be served at the same time
MaxInFlight == 2
\* hours the clock advances while requests are served concurrently
ServingHorizon == 2
Requests == 1..MaxInFlight
\* the position of a request slot with no request in it
Idle == [pc |-> "idle"]
Periods == {"MORNING", "EVENING"}
NoEntry == "absent"
NoTimer == -1
\* the distance to an empty path
Infinity == -1
\* the stops an admin may store for a bus (positions in order, per direction)
StopPayloads == {[morning |-> <<2, 8>>, evening |-> << >>],
                 [morning |-> <<2>>, evening |-> <<12, 2, 4>>]}
\* place names a user may send, and what the providers know about them
Texts == {"Benz Circle", " benz circle "}
\* positions a user may send as "lat,lng"
CoordInputs == {3, 20}
\* positions and radii (metres) findNearbyBusesDb is called with
UserLocations == {3, 8, 20}
Radii == {RadiusMeters, 4000}

VARIABLES
  now,                              \* Date.now(), in hours
  availabilityCounters,             \* server.js:198  ip -> {count, windowStart}
  availabilityContactCounters,      \* server.js:199  contact -> {count, windowStart}
  loginAttempts,                    \* server.js:192  ip -> {count, firstTs}
  googleUsage,                      \* server.js:202  {date, count}
  GOOGLE_MAPS_KEY,                  \* server.js:378  whether a key is configured
  geocodeCache,                     \* server.js:379  key -> {lat, lng, formatted_address}
  reverseGeocodeCache,              \* server.js:380  "lat,lng" -> address
  _lastRouteBuildTs,                \* server.js:463
  _routeRebuildTimer,               \* server.js:464  due time of the pending timer, or NoTimer
  routePolylinesCache,              \* server.js:385  busId -> {morningRoute, eveningRoute}
  polylineBuiltAt,                  \* when each entry of routePolylinesCache was built (history only)
  routeCacheFile,                   \* server.js:384  the JSON object in ROUTE_CACHE_PATH: key string -> routes
  snapshotBuiltAt,                  \* when each entry of routeCacheFile was built (history only)
  buses,                            \* prisma.bus with its stops
  nextBusId,                        \* the autoincrement of Bus.id
  routeCache,                       \* prisma.routeCache (routeCacheManager.js)
  cleanupDueAt,                     \* routeCacheManager.js:120  next firing of the cleanup interval
  providerCalls,                    \* requests sent to Google on the current day (history only)
  schedHist,                        \* signals and starts seen by the scheduler (history only)
  decoder,                          \* a decodePolyline call: its locals and position
  unsweptLoginAttempts,             \* loginAttempts as it would be had no sweep run (history only)
  rebuildsInProgress,               \* buildAllRoutePolylines runs that have not returned yet
  inflight,                         \* check-availability requests being served, by position
  hist                              \* observations of the last operation (history only)

vars == << now, availabilityCounters, availabilityContactCounters, loginAttempts, googleUsage,
           GOOGLE_MAPS_KEY, geocodeCache, reverseGeocodeCache,
           _lastRouteBuildTs, _routeRebuildTimer, routePolylinesCache, polylineBuiltAt,
           routeCacheFile, snapshotBuiltAt, buses, nextBusId, routeCache, cleanupDueAt, providerCalls, schedHist,
           decoder, unsweptLoginAttempts, rebuildsInProgress, inflight, hist >>

loginVars == << loginAttempts, unsweptLoginAttempts >>
governorVars == << availabilityCounters, availabilityContactCounters, loginVars, inflight >>
geoVars == << geocodeCache, reverseGeocodeCache >>
usageVars == << googleUsage, providerCalls >>
schedVars == << _lastRouteBuildTs, _routeRebuildTimer, schedHist, rebuildsInProgress >>
polyVars == << routePolylinesCache, polylineBuiltAt, routeCacheFile, snapshotBuiltAt >>
dbVars == << buses, nextBusId >>
dbCacheVars == << routeCache, cleanupDueAt >>

Max(a, b) == IF a >= b THEN a ELSE b
Min(a, b) == IF a <= b THEN a ELSE b
\* Map.set(k, v) on a map held as a function over its present keys
Put(map, k, v) == (k :> v) @@ map
EmptyMap == [k \in {} |-> 0]
Restrict(map, keys) == [k \in (DOMAIN map) \cap keys |-> map[k]]
Abs(x) == IF x < 0 THEN -x ELSE x
\* the element of a one-element set
TheOne(S) == CHOOSE x \in S : TRUE

\* (new Date()).toISOString().slice(0,10): the calendar day of time t
DateOf(t) == t \div DayLen

\* ------------------------------------------------------- usage governor
\* the budget check with its comparison off by one (count > limit)
checkAndIncrementPastLimit(usage, t) ==
  LET today == DateOf(t)
      u1 == IF usage.date # today THEN [date |-> today, count |-> 0] ELSE usage
  IN  IF u1.count > GOOGLE_MAPS_DAILY_LIMIT
        THEN [ok |-> FALSE, usage |-> u1]
        ELSE [ok |-> TRUE, usage |-> [u1 EXCEPT !.count = @ + 1]]

\* server.js:242-248; returns the verdict and the counter after the call
checkAndIncrementGoogleUsage(usage, t) ==
  LET today == DateOf(t)
      u1 == IF usage.date # today THEN [date |-> today, count |-> 0] ELSE usage
  IN  IF u1.count >= GOOGLE_MAPS_DAILY_LIMIT
        THEN [ok |-> FALSE, usage |-> u1]
        ELSE [ok |-> TRUE, usage |-> [u1 EXCEPT !.count = @ + 1]]

\* Map.get(key) || { count: 0, windowStart: now }
CounterOf(map, key, t) ==
  IF key \in DOMAIN map THEN map[key] ELSE [count |-> 0, windowStart |-> t]

\* a governor with one cap over all addresses: it refuses when any address
\* has used up its allowance
isAvailabilityAllowedGlobalCap(ipMap, cMap, ip, contact, t) ==
  /\ \A k \in DOMAIN ipMap \cup {ip} :
       (IF k \in DOMAIN ipMap THEN ipMap[k].count ELSE 0) < AVAILABILITY_LIMIT_PER_HOUR
  /\ contact # "none" =>
       (IF contact \in DOMAIN cMap THEN cMap[contact].count ELSE 0)
          < AVAILABILITY_LIMIT_PER_CONTACT_PER_HOUR

\* server.js:232-240
isAvailabilityAllowed(ipMap, cMap, ip, contact, t) ==
  IF CounterOf(ipMap, ip, t).count >= AVAILABILITY_LIMIT_PER_HOUR THEN FALSE
  ELSE IF contact # NoContact
          /\ CounterOf(cMap, contact, t).count >= AVAILABILITY_LIMIT_PER_CONTACT_PER_HOUR
       THEN FALSE
  ELSE TRUE

\* server.js:216-218 and 223-225: one counter's value after an increment
BumpCounter(obj, t) ==
  LET o1 == IF t - obj.windowStart > hourWindow
              THEN [count |-> 0, windowStart |-> t] ELSE obj
  IN  [o1 EXCEPT !.count = @ + 1]

\* server.js:1689  String(contact).toLowerCase()
ContactKey(contact) ==
  CASE contact = "A@X.io" -> "a@x.io"
    [] contact = NoContact -> NoContact
    [] OTHER -> contact

\* server.js:1702-1705  emailRegex / phoneRegex
IsValidContact(contact) == contact \in RawContacts

\* ------------------------------------------------------------ geocoding
\* answers of the primary provider (Google: a result, a response without
\* results, a request that fails) and of the free provider (Nominatim)
GoogleOutcomes == {"OK", "ZERO_RESULTS", "NETWORK_ERROR"}
NominatimOutcomes == {"FOUND", "EMPTY", "ERROR"}

\* server.js:502  locationName.trim().toLowerCase()
NormalizeKey(text) ==
  CASE text = "Benz Circle" -> "benz circle"
    [] text = " benz circle " -> "benz circle"
    [] OTHER -> text

\* what the providers answer for a place name when they have a result
GoogleGeocodeResult(text) == [lat |-> 3, lng |-> 0, formatted_address |-> "Benz Circle, Vijayawada"]
NominatimGeocodeResult(text) == [lat |-> 3, lng |-> 0, formatted_address |-> "Benz Circle, Krishna"]

Thrown(cache, usage, g, n) ==
  [kind |-> "throw", value |-> NoEntry, cache |-> cache, usage |-> usage,
   googleCalls |-> g, nominatimCalls |-> n]

\* the free provider's lookup caching its result under the text as typed
nominatimGeocodeRawKey(locationName, cache, usage, nOut) ==
  CASE nOut = "FOUND" ->
         [kind |-> "value", value |-> NominatimGeocodeResult(locationName),
          cache |-> Put(cache, locationName, NominatimGeocodeResult(locationName)),
          usage |-> usage, googleCalls |-> 0, nominatimCalls |-> 1]
    [] nOut = "EMPTY" ->
         [kind |-> "null", value |-> NoEntry, cache |-> cache, usage |-> usage,
          googleCalls |-> 0, nominatimCalls |-> 1]
    [] OTHER -> Thrown(cache, usage, 0, 1)

\* the free provider's lookup remembering that it found nothing
nominatimGeocodeCachingEmpty(locationName, cache, usage, nOut) ==
  CASE nOut = "FOUND" ->
         [kind |-> "value", value |-> NominatimGeocodeResult(locationName),
          cache |-> Put(cache, NormalizeKey(locationName), NominatimGeocodeResult(locationName)),
          usage |-> usage, googleCalls |-> 0, nominatimCalls |-> 1]
    [] nOut = "EMPTY" ->
         [kind |-> "null", value |-> NoEntry,
          cache |-> Put(cache, NormalizeKey(locationName),
                        [lat |-> 0, lng |-> 0, formatted_address |-> ""]),
          usage |-> usage, googleCalls |-> 0, nominatimCalls |-> 1]
    [] OTHER -> Thrown(cache, usage, 0, 1)

\* server.js:591-616; resolves a result (and caches it), resolves null, or rejects
nominatimGeocode(locationName, cache, usage, nOut) ==
  CASE nOut = "FOUND" ->
         [kind |-> "value", value |-> NominatimGeocodeResult(locationName),
          cache |-> Put(cache, NormalizeKey(locationName), NominatimGeocodeResult(locationName)),
          usage |-> usage, googleCalls |-> 0, nominatimCalls |-> 1]
    [] nOut = "EMPTY" ->
         [kind |-> "null", value |-> NoEntry, cache |-> cache, usage |-> usage,
          googleCalls |-> 0, nominatimCalls |-> 1]
    [] OTHER -> Thrown(cache, usage, 0, 1)

\* server.js:500-583
geocodeLocation(locationName, cache, usage, keyed, t, gOut, nOut) ==
  LET key == NormalizeKey(locationName)
      budget == checkAndIncrementGoogleUsage(usage, t)
  IN  IF key \in DOMAIN cache
        THEN [kind |-> "value", value |-> cache[key], cache |-> cache, usage |-> usage,
              googleCalls |-> 0, nominatimCalls |-> 0]
      ELSE IF ~keyed THEN nominatimGeocode(locationName, cache, usage, nOut)
      ELSE IF ~budget.ok THEN Thrown(cache, budget.usage, 0, 0)
      ELSE IF gOut = "OK"
        THEN [kind |-> "value", value |-> GoogleGeocodeResult(locationName),
              cache |-> Put(cache, key, GoogleGeocodeResult(locationName)),
              usage |-> budget.usage, googleCalls |-> 1, nominatimCalls |-> 0]
      ELSE IF gOut = "NETWORK_ERROR" THEN Thrown(cache, budget.usage, 1, 0)
      ELSE LET nom == nominatimGeocode(locationName, cache, budget.usage, nOut)
           IN  IF nom.kind = "value"
                 THEN [nom EXCEPT !.googleCalls = 1]
                 ELSE Thrown(cache, budget.usage, 1, 1)

\* server.js:668-706; resolves an address, resolves null, or throws
reverseGeocode(lat, rcache, usage, keyed, t, gOut, nOut) ==
  LET budget == checkAndIncrementGoogleUsage(usage, t)
      R(kind, c, u, g, n) ==
        [kind |-> kind, cache |-> c, usage |-> u, googleCalls |-> g, nominatimCalls |-> n]
  IN  IF lat \in DOMAIN rcache THEN R("value", rcache, usage, 0, 0)
      ELSE IF ~keyed
        THEN IF nOut = "FOUND"
               THEN R("value", Put(rcache, lat, "display_name"), usage, 0, 1)
               ELSE R("throw", rcache, usage, 0, 1)
      ELSE IF ~budget.ok THEN R("throw", rcache, budget.usage, 0, 0)
      ELSE IF gOut = "OK"
        THEN R("value", Put(rcache, lat, "formatted_address"), budget.usage, 1, 0)
        ELSE R("null", rcache, budget.usage, 1, 0)

\* server.js:732-770; label is "address" or "raw" (the coordinates as text)
geocodeLatLng(lat, usage, keyed, t, gOut, nOut) ==
  LET budget == checkAndIncrementGoogleUsage(usage, t)
      viaNominatim == IF nOut = "FOUND" THEN "address" ELSE "raw"
  IN  IF keyed
        THEN IF ~budget.ok
               THEN [kind |-> "throw", label |-> NoEntry, usage |-> budget.usage,
                     googleCalls |-> 0, nominatimCalls |-> 0]
             ELSE IF gOut = "OK"
               THEN [kind |-> "value", label |-> "address", usage |-> budget.usage,
                     googleCalls |-> 1, nominatimCalls |-> 0]
               ELSE [kind |-> "value", label |-> viaNominatim, usage |-> budget.usage,
                     googleCalls |-> 1, nominatimCalls |-> 1]
        ELSE [kind |-> "value", label |-> viaNominatim, usage |-> usage,
              googleCalls |-> 0, nominatimCalls |-> 1]

\* ---------------------------------------------------------- route paths
DirectionsOutcomes == {"OK", "ERROR"}

\* the road geometry the routing provider answers for a list of points:
\* the points with the midpoint of every leg added
RECURSIVE RoadPath(_)
RoadPath(pts) ==
  IF Len(pts) <= 1 THEN pts
  ELSE << pts[1], (pts[1] + pts[2]) \div 2 >> \o RoadPath(Tail(pts))

\* a fallback that joins the two end points only
getRoutePathEndpointsOnly(origin, destination, waypoints, usage, keyed, t, dOut) ==
  LET budget == checkAndIncrementGoogleUsage(usage, t)
      raw == << origin, destination >>
  IN  IF ~keyed THEN [path |-> raw, usage |-> usage, googleCalls |-> 0]
      ELSE IF ~budget.ok THEN [path |-> raw, usage |-> budget.usage, googleCalls |-> 0]
      ELSE IF dOut = "OK"
        THEN [path |-> RoadPath(<< origin >> \o waypoints \o << destination >>),
              usage |-> budget.usage, googleCalls |-> 1]
        ELSE [path |-> raw, usage |-> budget.usage, googleCalls |-> 1]

\* server.js:808-852; raw is [o, ...wpList, d], the answer whenever the
\* provider gives no polyline; dOut "ERROR" stands for a request error, an
\* unparseable body and a non-OK status alike (server.js:835-850)
getRoutePath(origin, destination, waypoints, usage, keyed, t, dOut) ==
  LET budget == checkAndIncrementGoogleUsage(usage, t)
      raw == << origin >> \o waypoints \o << destination >>
  IN  IF ~keyed THEN [path |-> raw, usage |-> usage, googleCalls |-> 0]
      ELSE IF ~budget.ok THEN [path |-> raw, usage |-> budget.usage, googleCalls |-> 0]
      ELSE IF dOut = "OK"
        THEN [path |-> RoadPath(raw), usage |-> budget.usage, googleCalls |-> 1]
        ELSE [path |-> raw, usage |-> budget.usage, googleCalls |-> 1]

\* server.js:418-431 buildForStops
buildForStops(stopsArr, usage, keyed, t, dOut) ==
  IF Len(stopsArr) = 0
    THEN [path |-> << >>, usage |-> usage, googleCalls |-> 0]
  ELSE IF Len(stopsArr) = 1
    THEN [path |-> << stopsArr[1] >>, usage |-> usage, googleCalls |-> 0]
  ELSE getRoutePath(stopsArr[1], stopsArr[Len(stopsArr)],
                    SubSeq(stopsArr, 2, Len(stopsArr) - 1), usage, keyed, t, dOut)

\* the position of a path point whose lat or lng is not a number
\* (Number(p.lat) is NaN, server.js:882-884 and 906-908)
NaN == -1000
isNaN(x) == x = NaN

\* geolib getDistance, in metres
getDistance(a, b) == Abs(a - b) * MetersPerUnit

\* the distance to the nearer end of the path
getMinDistanceToEndpoints(userLocation, path) ==
  IF Len(path) = 0 THEN Infinity
  ELSE Min(getDistance(path[1], userLocation), getDistance(path[Len(path)], userLocation))

\* server.js:899-913; a point whose coordinates are not numbers is skipped
\* (server.js:908), and the distance stays Infinity when no point is left
getMinDistanceAlongPath(userLocation, path) ==
  LET ds == {getDistance(path[i], userLocation) : i \in {j \in 1..Len(path) : ~isNaN(path[j])}}
  IN  IF ds = {} THEN Infinity
      ELSE CHOOSE d \in ds : \A e \in ds : d <= e

\* --------------------------------------------------- proximity matching
\* a count that reports the nearest stop even when it lies outside the circle
countStopsInCircleAtLeastOne(stopsArr, userLocation, radiusMeters) ==
  Max(1, Cardinality({i \in 1..Len(stopsArr) :
                        getDistance(userLocation, stopsArr[i]) <= radiusMeters}))

\* the stopsArr.reduce of server.js:1062-1068
countStopsInCircle(stopsArr, userLocation, radiusMeters) ==
  Cardinality({i \in 1..Len(stopsArr) : getDistance(userLocation, stopsArr[i]) <= radiusMeters})

\* server.js:1013-1073; entry is the bus's entry of routePolylinesCache when
\* hasEntry; fromCache tells whether the cached polyline was the path used,
\* built whether the path was generated for this call
checkRouteStops(stopsArr, routeType, userLocation, radiusMeters, hasEntry, entry, usage, keyed, t, dOut) ==
  LET field == IF hasEntry
                 THEN IF routeType = "MORNING" THEN entry.morningRoute ELSE entry.eveningRoute
                 ELSE << >>
      hit == hasEntry /\ Len(field) > 0
      built == getRoutePath(stopsArr[1], stopsArr[Len(stopsArr)],
                            SubSeq(stopsArr, 2, Len(stopsArr) - 1), usage, keyed, t, dOut)
      path == IF hit THEN field ELSE built.path
      minDist == getMinDistanceAlongPath(userLocation, path)
  IN  IF Len(stopsArr) = 0
        THEN [intersects |-> FALSE, stopCount |-> 0, routePath |-> << >>,
              usage |-> usage, fromCache |-> FALSE, built |-> FALSE, googleCalls |-> 0]
      ELSE IF Len(stopsArr) = 1
        THEN [intersects |-> getDistance(userLocation, stopsArr[1]) <= radiusMeters,
              stopCount |-> IF getDistance(userLocation, stopsArr[1]) <= radiusMeters THEN 1 ELSE 0,
              routePath |-> << stopsArr[1] >>, usage |-> usage, fromCache |-> FALSE,
              built |-> FALSE, googleCalls |-> 0]
      ELSE [intersects |-> (minDist # Infinity /\ minDist <= radiusMeters),
            stopCount |-> IF minDist # Infinity /\ minDist <= radiusMeters
                            THEN countStopsInCircle(stopsArr, userLocation, radiusMeters)
                            ELSE 0,
            routePath |-> path,
            usage |-> IF hit THEN usage ELSE built.usage,
            fromCache |-> hit,
            built |-> ~hit,
            googleCalls |-> IF hit THEN 0 ELSE built.googleCalls]

\* what a direction's check is seen to return
CheckResult(c) == [intersects |-> c.intersects, stopCount |-> c.stopCount,
                   routePath |-> c.routePath]

\* server.js:1078-1089: routeDetails gets the path of a direction that intersects
RouteDetails(morningCheck, eveningCheck) ==
  [p \in {q \in Periods : IF q = "MORNING" THEN morningCheck.intersects
                                            ELSE eveningCheck.intersects} |->
     IF p = "MORNING" THEN morningCheck.routePath ELSE eveningCheck.routePath]

\* a bus reported when exactly one of its directions intersects
BusResultExactlyOneDirection(morningCheck, eveningCheck) ==
  [intersects |-> morningCheck.intersects # eveningCheck.intersects,
   totalNearbyStops |-> (IF morningCheck.intersects THEN morningCheck.stopCount ELSE 0)
                      + (IF eveningCheck.intersects THEN eveningCheck.stopCount ELSE 0),
   routeDetails |-> RouteDetails(morningCheck, eveningCheck),
   checks |-> [p \in Periods |-> CheckResult(IF p = "MORNING" THEN morningCheck
                                                              ELSE eveningCheck)],
   usage |-> eveningCheck.usage,
   fromCache |-> morningCheck.fromCache \/ eveningCheck.fromCache,
   built |-> {p \in Periods : IF p = "MORNING" THEN morningCheck.built ELSE eveningCheck.built},
   googleCalls |-> morningCheck.googleCalls + eveningCheck.googleCalls]

\* a bus whose routeDetails carry the path of both directions
BusResultDetailsOfBothDirections(morningCheck, eveningCheck) ==
  [intersects |-> morningCheck.intersects \/ eveningCheck.intersects,
   totalNearbyStops |-> (IF morningCheck.intersects THEN morningCheck.stopCount ELSE 0)
                      + (IF eveningCheck.intersects THEN eveningCheck.stopCount ELSE 0),
   routeDetails |-> [p \in Periods |-> IF p = "MORNING" THEN morningCheck.routePath
                                                         ELSE eveningCheck.routePath],
   checks |-> [p \in Periods |-> CheckResult(IF p = "MORNING" THEN morningCheck
                                                              ELSE eveningCheck)],
   usage |-> eveningCheck.usage,
   fromCache |-> morningCheck.fromCache \/ eveningCheck.fromCache,
   built |-> {p \in Periods : IF p = "MORNING" THEN morningCheck.built ELSE eveningCheck.built},
   googleCalls |-> morningCheck.googleCalls + eveningCheck.googleCalls]

\* server.js:1075-1120: what the loop body makes of the two directions'
\* checks; checks are the two results, built the directions whose path was
\* generated
BusResult(morningCheck, eveningCheck) ==
  [intersects |-> morningCheck.intersects \/ eveningCheck.intersects,
   totalNearbyStops |-> (IF morningCheck.intersects THEN morningCheck.stopCount ELSE 0)
                      + (IF eveningCheck.intersects THEN eveningCheck.stopCount ELSE 0),
   routeDetails |-> RouteDetails(morningCheck, eveningCheck),
   checks |-> [p \in Periods |-> CheckResult(IF p = "MORNING" THEN morningCheck
                                                              ELSE eveningCheck)],
   usage |-> eveningCheck.usage,
   fromCache |-> morningCheck.fromCache \/ eveningCheck.fromCache,
   built |-> {p \in Periods : IF p = "MORNING" THEN morningCheck.built ELSE eveningCheck.built},
   googleCalls |-> morningCheck.googleCalls + eveningCheck.googleCalls]

\* server.js:998-1120: one bus of the loop of findNearbyBusesDb: the morning
\* check, then the evening check with the budget the morning check left
checkBus(b, db, userLocation, radiusMeters, cache, usage, keyed, t, dOut) ==
  LET hasEntry == b \in DOMAIN cache
      entry == IF hasEntry THEN cache[b] ELSE [morningRoute |-> << >>, eveningRoute |-> << >>]
  IN  TheOne({TheOne({BusResult(morningCheck, eveningCheck) :
                        eveningCheck \in {checkRouteStops(db[b].evening, "EVENING", userLocation,
                                             radiusMeters, hasEntry, entry, morningCheck.usage,
                                             keyed, t, dOut["EVENING"])}}) :
                morningCheck \in {checkRouteStops(db[b].morning, "MORNING", userLocation,
                                     radiusMeters, hasEntry, entry, usage, keyed, t,
                                     dOut["MORNING"])}})

\* server.js:993-1124; the buses are visited in id order.  results are the
\* reported buses and report what is reported of each; consulted is the set
\* of buses whose cached polyline was used, built the (bus, direction) pairs
\* whose path was generated, checks every bus's two direction results
RECURSIVE findNearbyBusesDb(_, _, _, _, _, _, _, _, _)
findNearbyBusesDb(todo, db, userLocation, radiusMeters, cache, usage, keyed, t, dOut) ==
  IF todo = {} THEN [results |-> {}, report |-> EmptyMap, checks |-> EmptyMap, usage |-> usage,
                     consulted |-> {}, built |-> {}, googleCalls |-> 0]
  ELSE LET b == CHOOSE x \in todo : \A y \in todo : x <= y
       IN  TheOne({TheOne({
             [results |-> (IF one.intersects THEN {b} ELSE {}) \cup rest.results,
              report |-> IF one.intersects
                           THEN Put(rest.report, b, [totalNearbyStops |-> one.totalNearbyStops,
                                                     routeDetails |-> one.routeDetails])
                           ELSE rest.report,
              checks |-> Put(rest.checks, b, one.checks),
              usage |-> rest.usage,
              consulted |-> (IF one.fromCache THEN {b} ELSE {}) \cup rest.consulted,
              built |-> {<< b, p >> : p \in one.built} \cup rest.built,
              googleCalls |-> one.googleCalls + rest.googleCalls] :
                rest \in {findNearbyBusesDb(todo \ {b}, db, userLocation, radiusMeters, cache,
                                           one.usage, keyed, t, dOut)}}) :
             one \in {checkBus(b, db, userLocation, radiusMeters, cache, usage, keyed, t,
                               dOut)}})

\* ------------------------------------------------------------- requests
\* the location field of a check-availability request
CoordLocations == {[kind |-> "coords", val |-> 3], [kind |-> "object", val |-> 20]}
TextLocations == [kind : {"text"}, val : Texts]
BadLocations == [kind : {"missing", "badformat"}, val : {0}]

\* server.js:212-230: the two counter maps after incrementAvailability
incrementAvailability(ipMap, cMap, ip, contact, t) ==
  [ip |-> Put(ipMap, ip, BumpCounter(CounterOf(ipMap, ip, t), t)),
   contact |-> IF contact # NoContact
                 THEN Put(cMap, contact, BumpCounter(CounterOf(cMap, contact, t), t))
                 ELSE cMap]

\* server.js:1713-1803: resolving the request's location.  gOut and nOut are
\* the providers' answers during this request (the same to both
\* geocodeLocation calls of a place-name request)
ResolveLocation(loc, cache, usage, keyed, t, gOut, nOut) ==
  LET ll == geocodeLatLng(loc.val, usage, keyed, t, gOut, nOut)
      r1 == geocodeLocation(loc.val, cache, usage, keyed, t, gOut, nOut)
      r2 == geocodeLocation(loc.val, r1.cache, r1.usage, keyed, t, gOut, nOut)
      R(ok, at, label, c, u, g) ==
        [ok |-> ok, userLocation |-> at, label |-> label, cache |-> c, usage |-> u,
         googleCalls |-> g]
  IN  CASE loc.kind \in {"coords", "object"} ->
             R(TRUE, loc.val, IF ll.kind = "value" THEN ll.label ELSE "raw", cache, ll.usage,
               ll.googleCalls)
        [] loc.kind = "text" ->
             IF r1.kind = "value"
               THEN R(TRUE, r1.value.lat, "address", r1.cache, r1.usage, r1.googleCalls)
             ELSE IF r2.kind = "value"
               THEN R(TRUE, r2.value.lat, "address", r2.cache, r2.usage,
                      r1.googleCalls + r2.googleCalls)
             ELSE R(FALSE, 0, "none", r2.cache, r2.usage, r1.googleCalls + r2.googleCalls)
        [] OTHER -> R(FALSE, 0, "none", cache, usage, 0)

\* the oldest cached polyline among those a request consulted (-1: none)
OldestAge(consulted, builtAt, t) ==
  IF consulted = {} THEN -1
  ELSE LET ages == {t - builtAt[b] : b \in consulted}
       IN  CHOOSE a \in ages : \A x \in ages : a >= x

\* the day's tally of requests sent to Google after k more of them at time t
CountCalls(tally, k, t) ==
  IF k = 0 THEN tally
  ELSE IF tally.date = DateOf(t) THEN [tally EXCEPT !.n = @ + k]
  ELSE [date |-> DateOf(t), n |-> k]

\* POST /api/check-availability, server.js:1681-1900 (the availability log
\* row it writes is not part of the model)
CheckAvailability(ip, contact, loc, gOut, nOut, dOut) ==
  LET contactKey == ContactKey(contact)
      allowed == isAvailabilityAllowed(availabilityCounters, availabilityContactCounters,
                                       ip, contactKey, now)
      valid == contact # NoContact /\ loc.kind # "missing" /\ IsValidContact(contact)
      H(status, age, units) ==
        [op |-> "check", status |-> status, ip |-> ip, contact |-> contact,
         locKind |-> loc.kind, freeProviderFinds |-> (nOut = "FOUND"), polylineAge |-> age,
         geocodeUnits |-> units]
  IN  /\ IF ~allowed
           THEN /\ hist' = H(429, -1, 0)
                /\ UNCHANGED << governorVars, usageVars, geocodeCache >>
         ELSE IF ~valid
           THEN /\ hist' = H(400, -1, 0)
                /\ UNCHANGED << governorVars, usageVars, geocodeCache >>
         ELSE \E inc \in {incrementAvailability(availabilityCounters,
                              availabilityContactCounters, ip, contactKey, now)},
                 res \in {ResolveLocation(loc, geocodeCache, googleUsage, GOOGLE_MAPS_KEY,
                                          now, gOut, nOut)} :
              /\ availabilityCounters' = inc.ip
              /\ availabilityContactCounters' = inc.contact
              /\ UNCHANGED << loginVars, inflight >>
              /\ geocodeCache' = res.cache
              /\ IF ~res.ok
                   THEN /\ googleUsage' = res.usage
                        /\ providerCalls' = CountCalls(providerCalls, res.googleCalls, now)
                        /\ hist' = H(400, -1, res.googleCalls)
                   ELSE \E found \in {findNearbyBusesDb(DOMAIN buses, buses, res.userLocation,
                                         RadiusMeters, routePolylinesCache, res.usage, GOOGLE_MAPS_KEY, now,
                                         [p \in Periods |-> dOut])} :
                        /\ googleUsage' = found.usage
                        /\ providerCalls' = CountCalls(providerCalls,
                                               res.googleCalls + found.googleCalls, now)
                        /\ hist' = H(200, OldestAge(found.consulted, polylineBuiltAt, now),
                                     res.googleCalls)
     /\ UNCHANGED << now, GOOGLE_MAPS_KEY, decoder, reverseGeocodeCache, schedVars, polyVars, dbVars,
                     dbCacheVars >>

\* a proximity check that takes the pending rebuild over: it clears the timer
\* and stamps the rebuild time itself
FindNearbyBusesSignalling ==
  \E userLocation \in UserLocations, radiusMeters \in Radii,
     dOut \in [Periods -> DirectionsOutcomes] :
  \E found \in {findNearbyBusesDb(DOMAIN buses, buses, userLocation, radiusMeters,
                                  routePolylinesCache, googleUsage, GOOGLE_MAPS_KEY, now,
                                  dOut)} :
     /\ _routeRebuildTimer' = NoTimer
     /\ _lastRouteBuildTs' = now
     /\ UNCHANGED << schedHist, rebuildsInProgress >>
     /\ googleUsage' = found.usage
     /\ providerCalls' = CountCalls(providerCalls, found.googleCalls, now)
     /\ hist' = [op |-> "find", userLocation |-> userLocation, radiusMeters |-> radiusMeters,
                 dOut |-> dOut, results |-> found.results, report |-> found.report,
                 checks |-> found.checks, built |-> found.built,
                 googleCalls |-> found.googleCalls]
     /\ UNCHANGED << now, GOOGLE_MAPS_KEY, decoder, governorVars, geoVars, polyVars,
                     dbVars, dbCacheVars >>

\* server.js:993-1124: one call of findNearbyBusesDb(userLocation, radiusKm)
\* against the stored buses and the polyline cache as they are
FindNearbyBuses ==
  \E userLocation \in UserLocations, radiusMeters \in Radii,
     dOut \in [Periods -> DirectionsOutcomes] :
  \E found \in {findNearbyBusesDb(DOMAIN buses, buses, userLocation, radiusMeters,
                                  routePolylinesCache, googleUsage, GOOGLE_MAPS_KEY, now,
                                  dOut)} :
     /\ googleUsage' = found.usage
     /\ providerCalls' = CountCalls(providerCalls, found.googleCalls, now)
     /\ hist' = [op |-> "find", userLocation |-> userLocation, radiusMeters |-> radiusMeters,
                 dOut |-> dOut, results |-> found.results, report |-> found.report,
                 checks |-> found.checks, built |-> found.built,
                 googleCalls |-> found.googleCalls]
     /\ UNCHANGED << now, GOOGLE_MAPS_KEY, decoder, governorVars, geoVars, schedVars, polyVars,
                     dbVars, dbCacheVars >>

\* a request that carries coordinates ("lat,lng" or {lat, lng}); the free
\* provider's answer changes only the label text of the log row
CheckAvailabilityByCoordinates ==
  \E ip \in IPs, contact \in RawContacts, loc \in CoordLocations,
     gOut \in GoogleOutcomes, dOut \in DirectionsOutcomes :
       CheckAvailability(ip, contact, loc, gOut, "FOUND", dOut)

\* a request that carries a place name
CheckAvailabilityByPlaceName ==
  \E ip \in IPs, contact \in RawContacts, loc \in TextLocations,
     gOut \in GoogleOutcomes, nOut \in NominatimOutcomes, dOut \in DirectionsOutcomes :
       CheckAvailability(ip, contact, loc, gOut, nOut, dOut)

\* a request with no contact, a malformed contact, or no usable location
CheckAvailabilityMalformed ==
  \E ip \in IPs :
    \/ \E contact \in {NoContact, BadContact} :
         CheckAvailability(ip, contact, [kind |-> "coords", val |-> 3], "OK", "FOUND", "OK")
    \/ \E contact \in RawContacts, loc \in BadLocations :
         CheckAvailability(ip, contact, loc, "OK", "FOUND", "OK")

\* the clock advances by one hour
Tick ==
  /\ now < MaxTime
  /\ now' = now + 1
  /\ hist' = [op |-> "tick"]
  /\ UNCHANGED << GOOGLE_MAPS_KEY, decoder, governorVars, geoVars, usageVars, schedVars, polyVars,
                  dbVars, dbCacheVars >>

\* whether the daily budget check, made now, would answer false
BudgetDenied == ~checkAndIncrementGoogleUsage(googleUsage, now).ok

\* what the primary provider did for a lookup made now: nothing (cache hit,
\* no key configured, budget check false), or its answer
PrimaryAnswer(cached, gOut) ==
  IF cached THEN "hit"
  ELSE IF ~GOOGLE_MAPS_KEY THEN "nokey"
  ELSE IF BudgetDenied THEN "denied"
  ELSE gOut

\* POST /api/geocode, server.js:619-632
GeocodeRequest ==
  \E text \in Texts, gOut \in GoogleOutcomes, nOut \in NominatimOutcomes :
    \E r \in {geocodeLocation(text, geocodeCache, googleUsage, GOOGLE_MAPS_KEY, now,
                                gOut, nOut)} :
        /\ geocodeCache' = r.cache
        /\ googleUsage' = r.usage
        /\ providerCalls' = CountCalls(providerCalls, r.googleCalls, now)
        /\ hist' = [op |-> "geocode", status |-> IF r.kind = "throw" THEN 400 ELSE 200,
                    kind |-> r.kind, text |-> text, value |-> r.value,
                    afterFailure |-> (hist.op = "geocode" /\ hist.kind # "value"
                                        /\ NormalizeKey(hist.text) = NormalizeKey(text)),
                    primary |-> PrimaryAnswer(NormalizeKey(text) \in DOMAIN geocodeCache, gOut),
                    budgetDenied |-> (GOOGLE_MAPS_KEY /\ NormalizeKey(text) \notin DOMAIN geocodeCache
                                        /\ BudgetDenied),
                    freeProviderFinds |-> (nOut = "FOUND"),
                    googleCalls |-> r.googleCalls, nominatimCalls |-> r.nominatimCalls]
        /\ UNCHANGED << now, GOOGLE_MAPS_KEY, decoder, governorVars, reverseGeocodeCache, schedVars,
                        polyVars, dbVars, dbCacheVars >>

\* POST /api/reverse-geocode, server.js:635-649
ReverseGeocodeRequest ==
  \E lat \in CoordInputs, gOut \in GoogleOutcomes, nOut \in NominatimOutcomes :
    \E r \in {reverseGeocode(lat, reverseGeocodeCache, googleUsage, GOOGLE_MAPS_KEY, now,
                               gOut, nOut)} :
        /\ reverseGeocodeCache' = r.cache
        /\ googleUsage' = r.usage
        /\ providerCalls' = CountCalls(providerCalls, r.googleCalls, now)
        /\ hist' = [op |-> "reverse", status |-> IF r.kind = "throw" THEN 400 ELSE 200,
                    kind |-> r.kind, lat |-> lat,
                    afterFailure |-> (hist.op = "reverse" /\ hist.kind # "value"
                                        /\ hist.lat = lat),
                    primary |-> PrimaryAnswer(lat \in DOMAIN reverseGeocodeCache, gOut),
                    budgetDenied |-> (GOOGLE_MAPS_KEY /\ lat \notin DOMAIN reverseGeocodeCache
                                        /\ BudgetDenied),
                    freeProviderFinds |-> (nOut = "FOUND"),
                    googleCalls |-> r.googleCalls, nominatimCalls |-> r.nominatimCalls]
        /\ UNCHANGED << now, GOOGLE_MAPS_KEY, decoder, governorVars, geocodeCache, schedVars,
                        polyVars, dbVars, dbCacheVars >>

\* ------------------------------------------------------ encoded polylines
\* coordinates are held in units of 1e-5 degree (server.js:787 multiplies the
\* running sums by 1e-5); a string is the sequence of its char codes
LatValues == {-1, 3850000, 4070000}
LngValues == {-12095000, -12020000, 0, 5}
GridPoints == [lat : LatValues, lng : LngValues]
RECURSIVE Paths(_)
Paths(n) == IF n = 0 THEN {<< >>}
            ELSE Paths(n - 1) \cup {Append(q, pt) : q \in {x \in Paths(n - 1) : Len(x) = n - 1},
                                                    pt \in GridPoints}

\* 1 << n.  The bitwise operators of JavaScript work on 32-bit integers; a
\* delta of two coordinates within +-180 degrees is below 2^26 in units of
\* 1e-5 degree and its encoding below 2^27, so no operation of the decoder
\* wraps (TLC's integers have the same width and report an overflow)
RECURSIVE Pow2(_)
Pow2(n) == IF n = 0 THEN 1 ELSE 2 * Pow2(n - 1)

\* the provider's encoding of one signed number: v << 1, inverted when v is
\* negative, then 5-bit groups, low group first, each but the last with the
\* continuation bit 0x20, every group offset by 63
RECURSIVE EncodeGroups(_)
EncodeGroups(z) ==
  IF z >= 32 THEN << 32 + (z % 32) + 63 >> \o EncodeGroups(z \div 32)
  ELSE << z + 63 >>
EncodeNumber(v) == EncodeGroups(IF v < 0 THEN -(2 * v) - 1 ELSE 2 * v)

\* the provider's encoding of a path: the deltas of latitude and longitude
\* from the previous point (from 0, 0 for the first)
RECURSIVE EncodePath(_, _, _)
EncodePath(points, lat, lng) ==
  IF points = << >> THEN << >>
  ELSE EncodeNumber(Head(points).lat - lat) \o EncodeNumber(Head(points).lng - lng)
         \o EncodePath(Tail(points), Head(points).lat, Head(points).lng)

\* a decoder that takes every number as non-negative
UnZigZagUnsigned(result) == result \div 2

\* server.js:781, 785  (result & 1) ? ~(result >> 1) : (result >> 1)
UnZigZag(result) ==
  IF result % 2 = 1 THEN -(result \div 2) - 1 ELSE result \div 2

\* server.js:780, 784: the do-while that reads one number; index counts
\* from 1, the groups occupy disjoint bits so that |= adds
RECURSIVE ReadNumber(_, _, _, _)
ReadNumber(encoded, index, shift, result) ==
  LET b == encoded[index] - 63
      r == result + (b % 32) * Pow2(shift)
  IN  IF b >= 32 THEN ReadNumber(encoded, index + 1, shift + 5, r)
      ELSE [result |-> r, index |-> index + 1]

\* server.js:775-790; lat and lng are the running sums
RECURSIVE decodeFrom(_, _, _, _)
decodeFrom(encoded, index, lat, lng) ==
  IF ~(index <= Len(encoded)) THEN << >>
  ELSE LET a == ReadNumber(encoded, index, 0, 0)
           o == ReadNumber(encoded, a.index, 0, 0)
           lat2 == lat + UnZigZag(a.result)
           lng2 == lng + UnZigZag(o.result)
       IN  << [lat |-> lat2, lng |-> lng2] >> \o decodeFrom(encoded, o.index, lat2, lng2)

decodePolyline(encoded) == IF Len(encoded) = 0 THEN << >> ELSE decodeFrom(encoded, 1, 0, 0)

\* server.js:837-840: the overview polyline of a Directions answer is decoded
DecodeProviderPolyline ==
  \E points \in Paths(MaxPolylinePoints) :
  \E encoded \in {EncodePath(points, 0, 0)} :
    /\ hist' = [op |-> "decode", points |-> points, encoded |-> encoded,
                decoded |-> decodePolyline(encoded)]
    /\ UNCHANGED << now, GOOGLE_MAPS_KEY, decoder, governorVars, geoVars, usageVars, schedVars, polyVars,
                    dbVars, dbCacheVars >>

\* -------------------------------------------------------- login limiter
\* what a login request sends as credentials
Credentials == {"missing", "wrong", "right"}

\* a limiter that starts the window again at every attempt it rejects
countLoginAttemptExtendingBlock(attempts, ip, t) ==
  LET rec == IF ip \in DOMAIN attempts THEN attempts[ip] ELSE [count |-> 0, firstTs |-> t]
      r1 == IF t - rec.firstTs > LOGIN_WINDOW_MS THEN [count |-> 0, firstTs |-> t] ELSE rec
      r2 == [r1 EXCEPT !.count = @ + 1]
  IN  IF r2.count > LOGIN_MAX_ATTEMPTS THEN [r2 EXCEPT !.firstTs = t] ELSE r2

\* server.js:1156-1160: the record of the ip after this attempt was counted
countLoginAttempt(attempts, ip, t) ==
  LET rec == IF ip \in DOMAIN attempts THEN attempts[ip] ELSE [count |-> 0, firstTs |-> t]
      r1 == IF t - rec.firstTs > LOGIN_WINDOW_MS THEN [count |-> 0, firstTs |-> t] ELSE rec
  IN  [r1 EXCEPT !.count = @ + 1]

\* server.js:1161-1206: the answer to an attempt whose record is rec
LoginStatus(rec, cred) ==
  IF rec.count > LOGIN_MAX_ATTEMPTS THEN 429
  ELSE IF cred = "missing" THEN 400
  ELSE IF cred = "wrong" THEN 401
  ELSE 200

\* POST /api/admin/login, server.js:1151-1224; seen is whether the ip had a
\* record, prevCount and prevFirstTs what it held
AdminLogin ==
  \E ip \in IPs, cred \in Credentials :
  \E rec \in {countLoginAttempt(loginAttempts, ip, now)} :
    /\ rec.count <= MaxLoginCount
    /\ loginAttempts' = Put(loginAttempts, ip, rec)
    /\ unsweptLoginAttempts' = Put(unsweptLoginAttempts, ip,
                                   countLoginAttempt(unsweptLoginAttempts, ip, now))
    /\ hist' = [op |-> "login", ip |-> ip,
                status |-> LoginStatus(rec, cred),
                unsweptStatus |-> LoginStatus(unsweptLoginAttempts'[ip], cred),
                swept |-> (ip \notin DOMAIN loginAttempts /\ ip \in DOMAIN unsweptLoginAttempts),
                unsweptPrevCount |-> IF ip \in DOMAIN unsweptLoginAttempts
                                       THEN unsweptLoginAttempts[ip].count ELSE 0,
                seen |-> ip \in DOMAIN loginAttempts,
                prevCount |-> IF ip \in DOMAIN loginAttempts THEN loginAttempts[ip].count ELSE 0,
                prevFirstTs |-> IF ip \in DOMAIN loginAttempts THEN loginAttempts[ip].firstTs
                                ELSE now]
    /\ UNCHANGED << now, GOOGLE_MAPS_KEY, decoder, availabilityCounters, availabilityContactCounters,
                    inflight, geoVars, usageVars, schedVars, polyVars, dbVars, dbCacheVars >>

\* a sweep that forgets a record as soon as its age reaches the window
cleanLoginAttemptsAtWindowEnd ==
  /\ loginAttempts' = Restrict(loginAttempts,
                         {ip \in DOMAIN loginAttempts :
                            ~(now - loginAttempts[ip].firstTs >= LOGIN_WINDOW_MS)})
  /\ hist' = [op |-> "loginCleanup"]
  /\ UNCHANGED << now, GOOGLE_MAPS_KEY, decoder, availabilityCounters, availabilityContactCounters,
                  unsweptLoginAttempts, inflight, geoVars, usageVars, schedVars, polyVars,
                  dbVars, dbCacheVars >>

\* server.js:204-210: the interval that forgets records whose window is over
cleanStaleLoginAttempts ==
  /\ loginAttempts' = Restrict(loginAttempts,
                         {ip \in DOMAIN loginAttempts :
                            ~(now - loginAttempts[ip].firstTs > LOGIN_WINDOW_MS)})
  /\ hist' = [op |-> "loginCleanup"]
  /\ UNCHANGED << now, GOOGLE_MAPS_KEY, decoder, availabilityCounters, availabilityContactCounters,
                  unsweptLoginAttempts, inflight, geoVars, usageVars, schedVars, polyVars, dbVars, dbCacheVars >>

\* ------------------------------------------------------ rebuild scheduler
\* a scheduler that measures the cooldown from the signal (a plain debounce)
scheduleFromLastSignal(immediate, t, last) ==
  t + (IF immediate THEN 0 ELSE ROUTE_BUILD_COOLDOWN_MS)

\* a scheduler that clears the timer and sets none when a rebuild started
\* within the cooldown (a leading-edge throttle)
scheduleDroppedInCooldown(immediate, t, last) ==
  IF ~immediate /\ t - last < ROUTE_BUILD_COOLDOWN_MS THEN NoTimer ELSE t

\* server.js:472-474 and 484: the time the timer set by a signal at t is due
scheduleRouteCacheRebuild(immediate, t, last) ==
  t + (IF immediate THEN 0 ELSE Max(0, ROUTE_BUILD_COOLDOWN_MS - (t - last)))

\* server.js:466-489: a signal clears the pending timer and sets a new one
Signal(immediate) ==
  LET due == scheduleRouteCacheRebuild(immediate, now, _lastRouteBuildTs)
  IN  /\ due <= MaxTime
      /\ _routeRebuildTimer' = due
      /\ schedHist' = [schedHist EXCEPT !.pending = Min(@ + 1, MaxPending),
                                        !.lastSignalTs = now, !.immediate = immediate]
      /\ UNCHANGED << _lastRouteBuildTs, rebuildsInProgress >>

\* scheduleRouteCacheRebuild(false), the rebuild signal of the scheduler
RebuildSignal ==
  /\ Signal(FALSE)
  /\ hist' = [op |-> "signal"]
  /\ UNCHANGED << now, GOOGLE_MAPS_KEY, decoder, governorVars, geoVars, usageVars, polyVars, dbVars,
                  dbCacheVars >>

\* POST /api/admin/rebuild-routes, server.js:1930-1937
AdminRebuildRoutes ==
  /\ Signal(TRUE)
  /\ hist' = [op |-> "admin", verb |-> "rebuild-routes", status |-> 200]
  /\ UNCHANGED << now, GOOGLE_MAPS_KEY, decoder, governorVars, geoVars, usageVars, polyVars, dbVars,
                  dbCacheVars >>

\* server.js:413-436.  failAt is where an exception escapes the function:
\* "none", or while building the morning or the evening path (thrown outside
\* the try of buildForStops, server.js:419-423)
buildRouteForBus(b, db, usage, keyed, t, dOut, failAt) ==
  LET m == buildForStops(db[b].morning, usage, keyed, t, dOut["MORNING"])
      e == buildForStops(db[b].evening, m.usage, keyed, t, dOut["EVENING"])
      none == [morningRoute |-> << >>, eveningRoute |-> << >>]
  IN  CASE failAt = "MORNING" ->
             [failed |-> TRUE, routes |-> none, usage |-> usage, googleCalls |-> 0]
        [] failAt = "EVENING" ->
             [failed |-> TRUE, routes |-> none, usage |-> m.usage, googleCalls |-> m.googleCalls]
        [] OTHER ->
             [failed |-> FALSE, routes |-> [morningRoute |-> m.path, eveningRoute |-> e.path],
              usage |-> e.usage, googleCalls |-> m.googleCalls + e.googleCalls]

\* a sweep that ends at the first bus whose build fails
RECURSIVE buildAllAbortsOnFailure(_, _, _, _, _, _, _, _)
buildAllAbortsOnFailure(todo, db, cache, usage, keyed, t, dOut, failAt) ==
  IF todo = {} THEN [cache |-> cache, usage |-> usage, googleCalls |-> 0,
                     built |-> {}, failed |-> {}]
  ELSE LET b == CHOOSE x \in todo : \A y \in todo : x <= y
       IN  TheOne({
             IF one.failed
               THEN [cache |-> cache, usage |-> one.usage, googleCalls |-> one.googleCalls,
                     built |-> {}, failed |-> {b}]
               ELSE TheOne({[rest EXCEPT !.googleCalls = @ + one.googleCalls,
                                         !.built = @ \cup {b}] :
                      rest \in {buildAllAbortsOnFailure(todo \ {b}, db,
                                  Put(cache, b, one.routes), one.usage, keyed, t, dOut,
                                  failAt)}}) :
             one \in {buildRouteForBus(b, db, usage, keyed, t, dOut, failAt[b])}})

\* a sweep that ends by dropping the entries of buses that no longer exist
RECURSIVE buildAllDroppingDeleted(_, _, _, _, _, _, _, _)
buildAllDroppingDeleted(todo, db, cache, usage, keyed, t, dOut, failAt) ==
  IF todo = {} THEN [cache |-> Restrict(cache, DOMAIN cache \cap DOMAIN db), usage |-> usage,
                     googleCalls |-> 0, built |-> {}, failed |-> {}]
  ELSE LET b == CHOOSE x \in todo : \A y \in todo : x <= y
       IN  TheOne({TheOne({
             [rest EXCEPT !.googleCalls = @ + one.googleCalls,
                          !.built = @ \cup (IF one.failed THEN {} ELSE {b}),
                          !.failed = @ \cup (IF one.failed THEN {b} ELSE {})] :
               rest \in {buildAllDroppingDeleted(todo \ {b}, db,
                           IF one.failed THEN cache ELSE Put(cache, b, one.routes),
                           one.usage, keyed, t, dOut, failAt)}}) :
             one \in {buildRouteForBus(b, db, usage, keyed, t, dOut, failAt[b])}})

\* server.js:438-455: the loop of buildAllRoutePolylines over the buses; a
\* bus whose build fails is logged and skipped (server.js:443-448).  built
\* and failed are the buses stored and skipped
RECURSIVE buildAllRoutePolylines(_, _, _, _, _, _, _, _)
buildAllRoutePolylines(todo, db, cache, usage, keyed, t, dOut, failAt) ==
  IF todo = {} THEN [cache |-> cache, usage |-> usage, googleCalls |-> 0,
                     built |-> {}, failed |-> {}]
  ELSE LET b == CHOOSE x \in todo : \A y \in todo : x <= y
       IN  TheOne({TheOne({
             [rest EXCEPT !.googleCalls = @ + one.googleCalls,
                          !.built = @ \cup (IF one.failed THEN {} ELSE {b}),
                          !.failed = @ \cup (IF one.failed THEN {b} ELSE {})] :
               rest \in {buildAllRoutePolylines(todo \ {b}, db,
                           IF one.failed THEN cache ELSE Put(cache, b, one.routes),
                           one.usage, keyed, t, dOut, failAt)}}) :
             one \in {buildRouteForBus(b, db, usage, keyed, t, dOut, failAt[b])}})

\* server.js:405  String(k) of a bus id, and server.js:393  Number(key) of
\* a key of the parsed file
String(k) == ToString(k)
Number(key) == CHOOSE k \in BusIds : ToString(k) = key

\* a save that adds the entries the file lacks and keeps those it has
saveRouteCacheMissingEntries(file, cache, diskOk) ==
  IF diskOk
    THEN [key \in DOMAIN file \cup {String(k) : k \in DOMAIN cache} |->
            IF key \in DOMAIN file THEN file[key] ELSE cache[Number(key)]]
    ELSE file

\* server.js:402-411: the file after saveRouteCacheToDisk: one object with
\* an entry obj[String(k)] = v for every entry of the cache (the routes, lists
\* of numbers, are written and parsed back as they are); a failed write is
\* logged and leaves the file as it was
saveRouteCacheToDisk(file, cache, diskOk) ==
  IF diskOk THEN [key \in {String(k) : k \in DOMAIN cache} |-> cache[Number(key)]]
  ELSE file

\* server.js:387-400: routePolylinesCache.set(Number(key), parsed[key]) for
\* every key of the file, on top of the cache as it is
loadRouteCacheFromDisk(cache, file) ==
  [k \in DOMAIN cache \cup {Number(key) : key \in DOMAIN file} |->
     IF String(k) \in DOMAIN file THEN file[String(k)] ELSE cache[k]]

\* where buildRouteForBus may fail, per bus
FailPoints == [BusIds -> {"none", "MORNING", "EVENING"}]
NoFailure == [b \in BusIds |-> "none"]

\* server.js:475-484: the timer callback with the rebuildAll it awaits
\* (server.js:438-455)
Rebuild(failAt, diskOk) ==
  /\ _routeRebuildTimer # NoTimer
  /\ now >= _routeRebuildTimer
  /\ \E dOut \in [Periods -> DirectionsOutcomes] :
     \E r \in {buildAllRoutePolylines(DOMAIN buses, buses, routePolylinesCache, googleUsage,
                                      GOOGLE_MAPS_KEY, now, dOut, failAt)} :
        /\ _routeRebuildTimer' = NoTimer
        /\ _lastRouteBuildTs' = now
        /\ schedHist' = [schedHist EXCEPT !.pending = 0, !.started = TRUE]
        /\ UNCHANGED rebuildsInProgress
        /\ routePolylinesCache' = r.cache
        /\ polylineBuiltAt' = [b \in DOMAIN r.cache |->
                                 IF b \in r.built THEN now ELSE polylineBuiltAt[b]]
        /\ routeCacheFile' = saveRouteCacheToDisk(routeCacheFile, r.cache, diskOk)
        /\ snapshotBuiltAt' = IF diskOk THEN polylineBuiltAt' ELSE snapshotBuiltAt
        /\ googleUsage' = r.usage
        /\ providerCalls' = CountCalls(providerCalls, r.googleCalls, now)
        /\ hist' = [op |-> "rebuildStart", due |-> _routeRebuildTimer,
                    served |-> schedHist.pending, lastSignalTs |-> schedHist.lastSignalTs,
                    immediate |-> schedHist.immediate,
                    first |-> ~schedHist.started, prevBuildTs |-> _lastRouteBuildTs,
                    budgetDenied |-> (GOOGLE_MAPS_KEY /\ BudgetDenied),
                    dOut |-> dOut, googleCalls |-> r.googleCalls,
                    failed |-> r.failed, diskOk |-> diskOk]
        /\ UNCHANGED << now, GOOGLE_MAPS_KEY, decoder, governorVars, geoVars, dbVars, dbCacheVars >>

\* a sweep in which every bus builds and the file is written
RebuildTimerFires == Rebuild(NoFailure, TRUE)

\* a sweep in which the build of some bus throws, or the file write fails
RebuildTimerFiresWithFailure ==
  \E failAt \in FailPoints, diskOk \in BOOLEAN :
    /\ failAt # NoFailure \/ ~diskOk
    /\ Rebuild(failAt, diskOk)

\* server.js:377-492: the process ends and starts again with the same
\* environment and ROUTE_CACHE_PATH: the maps and counters in memory start
\* empty, the route cache is loaded from the file, and the startup rebuild is
\* scheduled; the database keeps its rows
Restart ==
  /\ schedHist.restarts < MaxRestarts
  /\ availabilityCounters' = EmptyMap
  /\ availabilityContactCounters' = EmptyMap
  /\ loginAttempts' = EmptyMap
  /\ unsweptLoginAttempts' = EmptyMap
  /\ inflight' = [r \in Requests |-> Idle]
  /\ googleUsage' = [date |-> DateOf(now), count |-> 0]
  /\ geocodeCache' = EmptyMap
  /\ reverseGeocodeCache' = EmptyMap
  /\ routePolylinesCache' = loadRouteCacheFromDisk(EmptyMap, routeCacheFile)
  /\ polylineBuiltAt' = snapshotBuiltAt
  /\ _lastRouteBuildTs' = 0
  /\ _routeRebuildTimer' = scheduleRouteCacheRebuild(FALSE, now, 0)
  /\ rebuildsInProgress' = 0
  /\ schedHist' = [pending |-> Min(4, MaxPending), lastSignalTs |-> now, immediate |-> FALSE,
                   started |-> FALSE, restarts |-> schedHist.restarts + 1]
  /\ cleanupDueAt' = now + ROUTE_CACHE_REFRESH_HOURS
  /\ hist' = [op |-> "restart", cacheBefore |-> routePolylinesCache]
  /\ UNCHANGED << now, GOOGLE_MAPS_KEY, decoder, routeCacheFile, snapshotBuiltAt, providerCalls, dbVars,
                  routeCache >>

\* ------------------------------------------------------- admin bus CRUD
\* POST /api/admin/buses, server.js:1376-1427
AdminCreateBus ==
  \E named \in BOOLEAN, stops \in StopPayloads :
    /\ nextBusId <= MaxBuses
    /\ IF ~named
         THEN /\ hist' = [op |-> "admin", verb |-> "create", status |-> 400]
              /\ UNCHANGED dbVars
         ELSE /\ buses' = Put(buses, nextBusId, stops)
              /\ nextBusId' = nextBusId + 1
              /\ hist' = [op |-> "admin", verb |-> "create", status |-> 200]
    /\ UNCHANGED << now, GOOGLE_MAPS_KEY, decoder, governorVars, geoVars, usageVars, schedVars,
                    polyVars, dbCacheVars >>

\* PUT /api/admin/buses/:busNumber, server.js:1466-1538
AdminUpdateBus ==
  \E b \in BusIds, stops \in StopPayloads :
    /\ IF b \notin DOMAIN buses
         THEN /\ hist' = [op |-> "admin", verb |-> "update", status |-> 404]
              /\ UNCHANGED buses
         ELSE /\ buses' = Put(buses, b, stops)
              /\ hist' = [op |-> "admin", verb |-> "update", status |-> 200]
    /\ UNCHANGED << now, GOOGLE_MAPS_KEY, decoder, governorVars, geoVars, usageVars, schedVars,
                    polyVars, nextBusId, dbCacheVars >>

\* DELETE /api/admin/buses/:busNumber, server.js:1544-1564; the RouteCache rows
\* of the bus go with it (ON DELETE CASCADE)
AdminDeleteBus ==
  \E b \in BusIds :
    /\ IF b \notin DOMAIN buses
         THEN /\ hist' = [op |-> "admin", verb |-> "delete", status |-> 404]
              /\ UNCHANGED << buses, routeCache >>
         ELSE /\ buses' = Restrict(buses, DOMAIN buses \ {b})
              /\ routeCache' = Restrict(routeCache, {k \in DOMAIN routeCache : k[1] # b})
              /\ hist' = [op |-> "admin", verb |-> "delete", status |-> 200]
    /\ UNCHANGED << now, GOOGLE_MAPS_KEY, decoder, governorVars, geoVars, usageVars, schedVars,
                    polyVars, nextBusId, cleanupDueAt >>

\* --------------------------------------- database route cache (routeCacheManager.js)
RouteData == {<<2, 8>>, <<2, 5, 8>>}
CacheKeys == BusIds \X Periods

\* the lookup with an entry of age exactly maxAge treated as expired
getRouteFromCacheBelowMaxAge(table, key, t, dbOk) ==
  IF ~dbOk \/ key \notin DOMAIN table THEN [returned |-> FALSE, data |-> << >>]
  ELSE IF t - table[key].updatedAt >= ROUTE_CACHE_REFRESH_HOURS
    THEN [returned |-> FALSE, data |-> << >>]
    ELSE [returned |-> TRUE, data |-> table[key].routeData]

\* routeCacheManager.js:9-38; dbOk is false when the query throws.  The answer
\* is the stored routeData, or NoEntry for null
getRouteFromCache(table, key, t, dbOk) ==
  IF ~dbOk THEN [returned |-> FALSE, data |-> << >>]
  ELSE IF key \notin DOMAIN table THEN [returned |-> FALSE, data |-> << >>]
  ELSE LET cacheAge == t - table[key].updatedAt
           maxAge == ROUTE_CACHE_REFRESH_HOURS
       IN  IF cacheAge > maxAge
             THEN [returned |-> FALSE, data |-> << >>]
             ELSE [returned |-> TRUE, data |-> table[key].routeData]

\* routeCacheManager.js:43-66; the upsert fails (and is swallowed) when the
\* query throws or the bus does not exist (foreign key)
saveRouteToCache(table, key, routeData, t, dbOk) ==
  IF dbOk THEN Put(table, key, [routeData |-> routeData, updatedAt |-> t]) ELSE table

\* routeCacheManager.js:71-89
clearExpiredCache(table, t, dbOk) ==
  LET expiryTime == t - ROUTE_CACHE_REFRESH_HOURS
  IN  IF dbOk THEN Restrict(table, {k \in DOMAIN table : ~(table[k].updatedAt < expiryTime)})
      ELSE table

GetRoute ==
  \E key \in CacheKeys, dbOk \in BOOLEAN :
    LET r == getRouteFromCache(routeCache, key, now, dbOk)
    IN  /\ hist' = [op |-> "get", key |-> key, dbOk |-> dbOk,
                    present |-> key \in DOMAIN routeCache,
                    age |-> IF key \in DOMAIN routeCache
                              THEN now - routeCache[key].updatedAt ELSE -1,
                    stored |-> IF key \in DOMAIN routeCache
                                 THEN routeCache[key].routeData ELSE << >>,
                    returned |-> r.returned, data |-> r.data]
        /\ UNCHANGED << now, GOOGLE_MAPS_KEY, decoder, governorVars, geoVars, usageVars, schedVars,
                        polyVars, dbVars, dbCacheVars >>

SaveRoute ==
  \E key \in CacheKeys, routeData \in RouteData, dbOk \in BOOLEAN :
    /\ routeCache' = saveRouteToCache(routeCache, key, routeData, now,
                                      dbOk /\ key[1] \in DOMAIN buses)
    /\ hist' = [op |-> "save", key |-> key]
    /\ UNCHANGED << now, GOOGLE_MAPS_KEY, decoder, governorVars, geoVars, usageVars, schedVars,
                    polyVars, dbVars, cleanupDueAt >>

\* routeCacheManager.js:120-123: the cleanup interval fires
CleanupFires ==
  \E dbOk \in BOOLEAN :
    /\ now >= cleanupDueAt
    /\ routeCache' = clearExpiredCache(routeCache, now, dbOk)
    /\ cleanupDueAt' = now + ROUTE_CACHE_REFRESH_HOURS
    /\ hist' = [op |-> "cleanup"]
    /\ UNCHANGED << now, GOOGLE_MAPS_KEY, decoder, governorVars, geoVars, usageVars, schedVars,
                    polyVars, dbVars >>

\* ------------------------------------------------------- specifications
\* the state once server.js is loaded and listening: the four module-level
\* scheduleRouteCacheRebuild(false) calls (server.js:492, 1430, 1541, 1567)
\* have left one timer pending, the database holds one seeded bus
Init ==
  /\ now = StartTime
  /\ availabilityCounters = EmptyMap
  /\ availabilityContactCounters = EmptyMap
  /\ loginAttempts = EmptyMap
  /\ unsweptLoginAttempts = EmptyMap
  /\ decoder = NoCall
  /\ googleUsage = [date |-> DateOf(StartTime), count |-> 0]
  /\ GOOGLE_MAPS_KEY \in BOOLEAN
  /\ geocodeCache = EmptyMap
  /\ reverseGeocodeCache = EmptyMap
  /\ _lastRouteBuildTs = 0
  /\ _routeRebuildTimer = scheduleRouteCacheRebuild(FALSE, StartTime, 0)
  /\ routePolylinesCache = EmptyMap
  /\ polylineBuiltAt = EmptyMap
  /\ routeCacheFile = EmptyMap
  /\ snapshotBuiltAt = EmptyMap
  /\ buses = (1 :> [morning |-> <<2, 8>>, evening |-> << >>])
  /\ nextBusId = 2
  /\ routeCache = EmptyMap
  /\ cleanupDueAt = StartTime + ROUTE_CACHE_REFRESH_HOURS
  /\ providerCalls = [date |-> DateOf(StartTime), n |-> 0]
  /\ schedHist = [pending |-> Min(4, MaxPending), lastSignalTs |-> StartTime, immediate |-> FALSE,
                  started |-> FALSE, restarts |-> 0]
  /\ rebuildsInProgress = 0
  /\ inflight = [r \in Requests |-> Idle]
  /\ hist = [op |-> "start"]

\* the proximity check and its rate governor
NextGovernor ==
  \/ Tick
  \/ CheckAvailabilityByCoordinates
  \/ CheckAvailabilityByPlaceName
  \/ CheckAvailabilityMalformed

\* the operations that consume the daily provider budget
NextProvider ==
  \/ Tick
  \/ GeocodeRequest
  \/ ReverseGeocodeRequest
  \/ AdminRebuildRoutes
  \/ RebuildTimerFires

\* the rebuild scheduler and its signals
NextScheduler ==
  \/ Tick
  \/ RebuildSignal
  \/ AdminRebuildRoutes
  \/ RebuildTimerFires

\* the admin bus mutations beside the scheduler
NextAdmin ==
  \/ Tick
  \/ RebuildTimerFires
  \/ AdminCreateBus
  \/ AdminUpdateBus
  \/ AdminDeleteBus

\* proximity checks beside the rebuilds and the cleanup sweep
NextStaleness ==
  \/ Tick
  \/ RebuildTimerFires
  \/ CheckAvailabilityByCoordinates
  \/ CleanupFires

\* the database route cache
NextRouteCache ==
  \/ Tick
  \/ GetRoute
  \/ SaveRoute
  \/ CleanupFires
  \/ AdminDeleteBus

\* building the route polylines of the buses the admin stored
NextRoutes ==
  \/ Tick
  \/ AdminRebuildRoutes
  \/ RebuildTimerFires
  \/ AdminCreateBus
  \/ AdminUpdateBus

\* proximity matching against the buses and polylines as they change
NextMatcher ==
  \/ FindNearbyBuses
  \/ AdminCreateBus
  \/ AdminUpdateBus
  \/ AdminRebuildRoutes
  \/ RebuildTimerFires

\* rebuild sweeps in which a bus's build or the file write may fail
NextSweep ==
  \/ AdminRebuildRoutes
  \/ RebuildTimerFires
  \/ RebuildTimerFiresWithFailure
  \/ AdminCreateBus

\* sweeps, their snapshot file, and restarts that load it
NextPersist ==
  \/ AdminRebuildRoutes
  \/ RebuildTimerFires
  \/ RebuildTimerFiresWithFailure
  \/ AdminCreateBus
  \/ Restart

\* the login limiter
NextLogin ==
  \/ Tick
  \/ AdminLogin
  \/ cleanStaleLoginAttempts

\* decoding the polylines the routing provider sends
\* ---------------------------------------------------------------------------
\* Candidate selection of the primary geocoder, server.js:546-572.
\* A candidate is the set of long_name values of its address components; the
\* preferences are process.env.GEOCODE_STATE / GEOCODE_CITY ("" when unset).
MaxCandidates == 3
StatePrefs == {"", "Andhra Pradesh"}
CityPrefs == {"", "Guntur"}
ComponentNames == {"Andhra Pradesh", "guntur"}
Candidates == SUBSET ComponentNames

RECURSIVE CandidateLists(_)
CandidateLists(n) ==
  IF n = 0 THEN {<< >>}
  ELSE CandidateLists(n - 1) \cup
       {Append(l, c) : l \in {x \in CandidateLists(n - 1) : Len(x) = n - 1}, c \in Candidates}

\* String.prototype.toLowerCase on the names that occur
toLowerCase(name) ==
  CASE name = "Andhra Pradesh" -> "andhra pradesh"
    [] name = "Guntur" -> "guntur"
    [] OTHER -> name

\* compNames.includes(norm), guarded by the preference being configured
hasPref(norm, comps) == norm # "" /\ norm \in {toLowerCase(c) : c \in comps}

\* the for-loop of server.js:553-568; chosen = 0 stands for null, the result is
\* the index of the chosen candidate
RECURSIVE chooseFrom(_, _, _, _, _)
chooseFrom(results, i, chosen, stateNorm, cityNorm) ==
  IF i > Len(results) THEN chosen
  ELSE LET hasState == hasPref(stateNorm, results[i])
           hasCity == hasPref(cityNorm, results[i])
           enters == \/ chosen = 0
                     \/ (stateNorm # "" /\ cityNorm # "" /\ hasState /\ hasCity)
                     \/ (stateNorm # "" /\ hasState /\ cityNorm = "")
                     \/ (cityNorm # "" /\ hasCity /\ stateNorm = "")
       IN IF ~enters THEN chooseFrom(results, i + 1, chosen, stateNorm, cityNorm)
          ELSE IF stateNorm # "" /\ cityNorm # ""
                 THEN IF hasState /\ hasCity THEN i
                      ELSE chooseFrom(results, i + 1, chosen, stateNorm, cityNorm)
          ELSE IF stateNorm # "" /\ hasState THEN i
          ELSE IF cityNorm # "" /\ hasCity THEN i
          ELSE IF chosen = 0 THEN chooseFrom(results, i + 1, i, stateNorm, cityNorm)
          ELSE chooseFrom(results, i + 1, chosen, stateNorm, cityNorm)

\* server.js:548-569: chosen, or results[0] when the loop chose nothing
chooseCandidate(results, statePref, cityPref) ==
  LET c == chooseFrom(results, 1, 0, toLowerCase(statePref), toLowerCase(cityPref))
  IN IF c = 0 THEN 1 ELSE c

\* the primary geocoder answers OK with a non-empty list of candidates
ChooseGeocodeCandidate ==
  \E results \in {l \in CandidateLists(MaxCandidates) : Len(l) >= 1} :
  \E statePref \in StatePrefs, cityPref \in CityPrefs :
    /\ hist' = [op |-> "choose", results |-> results, statePref |-> statePref,
                cityPref |-> cityPref,
                chosen |-> chooseCandidate(results, statePref, cityPref)]
    /\ UNCHANGED << now, GOOGLE_MAPS_KEY, decoder, governorVars, geoVars, usageVars, schedVars, polyVars,
                    dbVars, dbCacheVars >>

NextChooser ==
  \/ ChooseGeocodeCandidate

\* ---------------------------------------------------------------------------
\* isPathIntersectsCircle, server.js:872-896.  Path points are positions on
\* the line the stops lie on, or NaN.
MaxPathLen == 3
PathPoints == {2, 5, 12, NaN}

RECURSIVE PathsUpTo(_)
PathsUpTo(n) ==
  IF n = 0 THEN {<< >>}
  ELSE PathsUpTo(n - 1) \cup
       {Append(q, x) : q \in {y \in PathsUpTo(n - 1) : Len(y) = n - 1}, x \in PathPoints}

\* the for-loop of server.js:880-891 from index i on (1-based)
RECURSIVE pointWithinFrom(_, _, _, _)
pointWithinFrom(userLocation, path, radiusMeters, i) ==
  IF i > Len(path) THEN FALSE
  ELSE IF isNaN(path[i]) THEN pointWithinFrom(userLocation, path, radiusMeters, i + 1)
  ELSE IF getDistance(path[i], userLocation) <= radiusMeters THEN TRUE
  ELSE pointWithinFrom(userLocation, path, radiusMeters, i + 1)

\* a check that looks at the first point only
isPathIntersectsCircleFirstPointOnly(userLocation, path, radiusMeters) ==
  IF Len(path) = 0 THEN FALSE
  ELSE ~isNaN(path[1]) /\ getDistance(path[1], userLocation) <= radiusMeters

isPathIntersectsCircle(userLocation, path, radiusMeters) ==
  IF Len(path) = 0 THEN FALSE
  ELSE pointWithinFrom(userLocation, path, radiusMeters, 1)

PathIntersectsCircle ==
  \E userLocation \in UserLocations, path \in PathsUpTo(MaxPathLen), radiusMeters \in Radii :
    /\ hist' = [op |-> "intersects", userLocation |-> userLocation, path |-> path,
                radiusMeters |-> radiusMeters,
                intersects |-> isPathIntersectsCircle(userLocation, path, radiusMeters),
                minDist |-> getMinDistanceAlongPath(userLocation, path)]
    /\ UNCHANGED << now, GOOGLE_MAPS_KEY, decoder, governorVars, geoVars, usageVars, schedVars, polyVars,
                    dbVars, dbCacheVars >>

\* ---------------------------------------------------------------------------
\* POST /api/check-availability as the event loop runs it: the body is parsed
\* by the bodyParser middleware (server.js:142) before the handler is entered,
\* the handler then runs without suspension from server.js:1683 to its first
\* await (after incrementAvailability, server.js:1711), and the rest of the
\* handler runs when the awaited lookups complete.
\* counters read before a suspension: the maps as they were on arrival
CountersReadOnArrival(r) == inflight[r].seen

\* the counters the admission check of request r reads: the maps as they are
\* when the handler runs (server.js:1691 and 1711 are in one synchronous run)
CountersSeenBy(r) == [ip |-> availabilityCounters, contact |-> availabilityContactCounters]

\* the request is received and its body parsed; seen records the counters as
\* they are at that moment (history only)
RequestArrives(r) ==
  /\ inflight[r].pc = "idle"
  /\ \E ip \in IPs, contact \in RawContacts \cup {BadContact} :
       inflight' = [inflight EXCEPT ![r] =
                      [pc |-> "parsed", ip |-> ip, contact |-> contact,
                       seen |-> [ip |-> availabilityCounters,
                                 contact |-> availabilityContactCounters]]]
  /\ hist' = [op |-> "arrive", r |-> r]
  /\ UNCHANGED << now, GOOGLE_MAPS_KEY, decoder, availabilityCounters, availabilityContactCounters,
                  loginVars, geoVars, usageVars, schedVars, polyVars, dbVars, dbCacheVars >>

\* server.js:1683-1711: admission check, validation and increment in one run
HandlerRuns(r) ==
  /\ inflight[r].pc = "parsed"
  /\ LET q == inflight[r]
         contactKey == ContactKey(q.contact)
         c == CountersSeenBy(r)
         allowed == isAvailabilityAllowed(c.ip, c.contact, q.ip, contactKey, now)
         inc == incrementAvailability(availabilityCounters, availabilityContactCounters,
                                      q.ip, contactKey, now)
         freeAtArrival == isAvailabilityAllowed(q.seen.ip, q.seen.contact, q.ip,
                                                contactKey, now)
         H(status) == [op |-> "handler", r |-> r, ip |-> q.ip, contact |-> contactKey,
                       status |-> status, freeAtArrival |-> freeAtArrival]
     IN  IF ~allowed
           THEN /\ inflight' = [inflight EXCEPT ![r] = Idle]
                /\ hist' = H(429)
                /\ UNCHANGED << availabilityCounters, availabilityContactCounters >>
         ELSE IF ~IsValidContact(q.contact)
           THEN /\ inflight' = [inflight EXCEPT ![r] = Idle]
                /\ hist' = H(400)
                /\ UNCHANGED << availabilityCounters, availabilityContactCounters >>
         ELSE /\ availabilityCounters' = inc.ip
              /\ availabilityContactCounters' = inc.contact
              /\ inflight' = [inflight EXCEPT ![r] = [q EXCEPT !.pc = "awaiting"]]
              /\ hist' = H(0)
  /\ UNCHANGED << now, GOOGLE_MAPS_KEY, decoder, loginVars, geoVars, usageVars, schedVars, polyVars,
                  dbVars, dbCacheVars >>

\* server.js:1713-1900: the awaited lookups complete and the response is sent
\* (the request carried coordinates)
HandlerResumes(r) ==
  /\ inflight[r].pc = "awaiting"
  /\ \E loc \in CoordLocations, gOut \in GoogleOutcomes, dOut \in DirectionsOutcomes :
     \E res \in {ResolveLocation(loc, geocodeCache, googleUsage, GOOGLE_MAPS_KEY, now,
                                 gOut, "FOUND")} :
     \E found \in {findNearbyBusesDb(DOMAIN buses, buses, res.userLocation, RadiusMeters,
                                     routePolylinesCache, res.usage, GOOGLE_MAPS_KEY, now,
                                     [p \in Periods |-> dOut])} :
        /\ geocodeCache' = res.cache
        /\ googleUsage' = found.usage
        /\ providerCalls' = CountCalls(providerCalls, res.googleCalls + found.googleCalls, now)
        /\ inflight' = [inflight EXCEPT ![r] = Idle]
        /\ hist' = [op |-> "handler", r |-> r, ip |-> inflight[r].ip,
                    contact |-> ContactKey(inflight[r].contact), status |-> 200,
                    freeAtArrival |-> TRUE]
  /\ UNCHANGED << now, GOOGLE_MAPS_KEY, decoder, availabilityCounters, availabilityContactCounters,
                  loginVars, reverseGeocodeCache, schedVars, polyVars, dbVars, dbCacheVars >>

\* the clock advances while requests are being served
TickWhileServing ==
  /\ now < StartTime + ServingHorizon
  /\ Tick

NextConcurrent ==
  \/ TickWhileServing
  \/ \E r \in Requests : RequestArrives(r)
  \/ \E r \in Requests : HandlerRuns(r)
  \/ \E r \in Requests : HandlerResumes(r)

\* ---------------------------------------------------------------------------
\* The timer callback of scheduleRouteCacheRebuild as the event loop runs it:
\* server.js:476-477 run when the timer fires, then the callback awaits
\* buildAllRoutePolylines (server.js:480), which itself awaits the database
\* and every route build (server.js:441-444) before it returns.
MaxOverlap == 2

\* server.js:475-480: the timer fires and a buildAllRoutePolylines run begins
RebuildBegins ==
  /\ _routeRebuildTimer # NoTimer
  /\ now >= _routeRebuildTimer
  /\ rebuildsInProgress < MaxOverlap
  /\ _routeRebuildTimer' = NoTimer
  /\ _lastRouteBuildTs' = now
  /\ schedHist' = [schedHist EXCEPT !.pending = 0, !.started = TRUE]
  /\ rebuildsInProgress' = rebuildsInProgress + 1
  /\ hist' = [op |-> "rebuildBegin", alreadyRunning |-> rebuildsInProgress]
  /\ UNCHANGED << now, GOOGLE_MAPS_KEY, decoder, governorVars, geoVars, usageVars, polyVars, dbVars,
                  dbCacheVars >>

\* server.js:441-454: the awaited route builds of a run complete, the cache is
\* written and saved, and the run returns
RebuildReturns ==
  /\ rebuildsInProgress > 0
  /\ \E dOut \in [Periods -> DirectionsOutcomes] :
     \E r \in {buildAllRoutePolylines(DOMAIN buses, buses, routePolylinesCache, googleUsage,
                                      GOOGLE_MAPS_KEY, now, dOut, NoFailure)} :
        /\ rebuildsInProgress' = rebuildsInProgress - 1
        /\ routePolylinesCache' = r.cache
        /\ polylineBuiltAt' = [b \in DOMAIN r.cache |->
                                 IF b \in r.built THEN now ELSE polylineBuiltAt[b]]
        /\ routeCacheFile' = saveRouteCacheToDisk(routeCacheFile, r.cache, TRUE)
        /\ snapshotBuiltAt' = polylineBuiltAt'
        /\ googleUsage' = r.usage
        /\ providerCalls' = CountCalls(providerCalls, r.googleCalls, now)
        /\ hist' = [op |-> "rebuildReturn", googleCalls |-> r.googleCalls]
  /\ UNCHANGED << now, GOOGLE_MAPS_KEY, decoder, governorVars, geoVars, _lastRouteBuildTs,
                  _routeRebuildTimer, schedHist, dbVars, dbCacheVars >>

NextOverlap ==
  \/ Tick
  \/ RebuildSignal
  \/ AdminRebuildRoutes
  \/ RebuildBegins
  \/ RebuildReturns

\* ---------------------------------------------------------------------------
\* check-availability requests from several addresses (req.ip, server.js:1687)
ManyIPs == {"ip1", "ip2"}

CheckAvailabilityFromAnyIp ==
  \E ip \in ManyIPs, contact \in RawContacts \cup {NoContact} :
    CheckAvailability(ip, contact, [kind |-> "coords", val |-> 3], "OK", "FOUND", "OK")

NextIsolation ==
  \/ TickWhileServing
  \/ CheckAvailabilityFromAnyIp

\* ---------------------------------------------------------------------------
\* buses created and deleted while sweeps rebuild and save the polyline cache
NextRetention ==
  \/ AdminRebuildRoutes
  \/ RebuildTimerFires
  \/ RebuildTimerFiresWithFailure
  \/ AdminCreateBus
  \/ AdminDeleteBus

\* ---------------------------------------------------------------------------
\* decodePolyline, server.js:775-790, statement by statement, on any string.
\* index counts from 0 as in the code; a string is its sequence of char codes.
MaxEncodedLen == 3
\* '(' (below the offset 63), '?' (0), '@' (1), '_' (0x20: continuation bit
\* only), '~' (0x3f: continuation bit and all five value bits)
EncodedChars == {40, 63, 64, 95, 126}

RECURSIVE EncodedStrings(_)
EncodedStrings(n) ==
  IF n = 0 THEN {<< >>}
  ELSE EncodedStrings(n - 1) \cup
       {Append(e, c) : e \in {x \in EncodedStrings(n - 1) : Len(x) = n - 1}, c \in EncodedChars}

\* String.prototype.charCodeAt: NaN past the end of the string
charCodeAt(encoded, index) == IF index < Len(encoded) THEN encoded[index + 1] ELSE NaN

\* b = charCode - 63 (NaN - 63 is NaN)
groupOf(code) == IF isNaN(code) THEN NaN ELSE code - 63

\* b & 0x1f (NaN & 0x1f is 0; for a negative b the low five bits of its
\* two's complement)
lowFiveBits(b) == IF isNaN(b) THEN 0 ELSE b % 32

\* a loop test under which a read past the end goes on reading
continuesPastEnd(b) == isNaN(b) \/ b >= 32

\* while (b >= 0x20): false for NaN
continues(b) == ~isNaN(b) /\ b >= 32

\* server.js:776-777: the call, the test for the empty string, the locals
DecodeCall ==
  /\ decoder.pc \in {"idle", "done"}
  /\ \E encoded \in EncodedStrings(MaxEncodedLen) :
       decoder' = IF Len(encoded) = 0
                    THEN [pc |-> "done", encoded |-> encoded, index |-> 0, shift |-> 0,
                          result |-> 0, lat |-> 0, lng |-> 0, coords |-> << >>]
                    ELSE [pc |-> "while", encoded |-> encoded, index |-> 0, shift |-> 0,
                          result |-> 0, lat |-> 0, lng |-> 0, coords |-> << >>]
  /\ hist' = [op |-> "decodeCall"]
  /\ UNCHANGED << now, GOOGLE_MAPS_KEY, governorVars, geoVars, usageVars, schedVars, polyVars,
                  dbVars, dbCacheVars >>

\* server.js:778-779 and 788: the test of the while loop; the locals of an
\* iteration, or the return
DecodeWhileTest ==
  /\ decoder.pc = "while"
  /\ decoder' = IF decoder.index < Len(decoder.encoded)
                  THEN [decoder EXCEPT !.pc = "latLoop", !.shift = 0, !.result = 0]
                  ELSE [decoder EXCEPT !.pc = "done"]
  /\ hist' = [op |-> "decodeTest"]
  /\ UNCHANGED << now, GOOGLE_MAPS_KEY, governorVars, geoVars, usageVars, schedVars, polyVars,
                  dbVars, dbCacheVars >>

\* server.js:780-786: one pass through the body of a do-while and its test;
\* when the number is complete, server.js:781 (after the first loop) or
\* 785-786 (after the second)
DecodeGroup ==
  /\ decoder.pc \in {"latLoop", "lngLoop"}
  /\ LET b == groupOf(charCodeAt(decoder.encoded, decoder.index))
         result == decoder.result + lowFiveBits(b) * Pow2(decoder.shift)
     IN  decoder' =
           IF continues(b)
             THEN [decoder EXCEPT !.index = @ + 1, !.result = result, !.shift = @ + 5]
           ELSE IF decoder.pc = "latLoop"
             THEN [decoder EXCEPT !.index = @ + 1, !.lat = @ + UnZigZag(result),
                                  !.shift = 0, !.result = 0, !.pc = "lngLoop"]
           ELSE [decoder EXCEPT !.index = @ + 1, !.shift = 0, !.result = 0, !.pc = "while",
                                !.lng = @ + UnZigZag(result),
                                !.coords = Append(@, [lat |-> decoder.lat,
                                                      lng |-> decoder.lng + UnZigZag(result)])]
  /\ hist' = [op |-> "decodeGroup"]
  /\ UNCHANGED << now, GOOGLE_MAPS_KEY, governorVars, geoVars, usageVars, schedVars, polyVars,
                  dbVars, dbCacheVars >>

NextDecoder ==
  \/ DecodeCall
  \/ DecodeWhileTest
  \/ DecodeGroup

NextIntersect ==
  \/ PathIntersectsCircle

NextPolyline ==
  \/ DecodeProviderPolyline

Next ==
  \/ NextDecoder
  \/ NextRetention
  \/ NextIsolation
  \/ NextOverlap
  \/ NextConcurrent
  \/ NextIntersect
  \/ NextChooser
  \/ NextPolyline
  \/ NextLogin
  \/ NextPersist
  \/ NextSweep
  \/ NextRoutes
  \/ NextMatcher
  \/ NextGovernor
  \/ NextProvider
  \/ NextScheduler
  \/ NextAdmin
  \/ NextStaleness
  \/ NextRouteCache

Spec == Init /\ [][Next]_vars
SpecGovernor == Init /\ [][NextGovernor]_vars
SpecProvider == Init /\ [][NextProvider]_vars
SpecScheduler == Init /\ [][NextScheduler]_vars
SpecAdmin == Init /\ [][NextAdmin]_vars
SpecStaleness == Init /\ [][NextStaleness]_vars
SpecRouteCache == Init /\ [][NextRouteCache]_vars
SpecRoutes == Init /\ [][NextRoutes]_vars
SpecMatcher == Init /\ [][NextMatcher]_vars
SpecSweep == Init /\ [][NextSweep]_vars
SpecPersist == Init /\ [][NextPersist]_vars
SpecLogin == Init /\ [][NextLogin]_vars
SpecPolyline == Init /\ [][NextPolyline]_vars
SpecChooser == Init /\ [][NextChooser]_vars
SpecIntersect == Init /\ [][NextIntersect]_vars
SpecConcurrent == Init /\ [][NextConcurrent]_vars
SpecOverlap == Init /\ [][NextOverlap]_vars
SpecIsolation == Init /\ [][NextIsolation]_vars
SpecRetention == Init /\ [][NextRetention]_vars
SpecDecoder == Init /\ [][NextDecoder]_vars
\* decodePolyline is synchronous code: once called it runs on
LiveDecoder == SpecDecoder /\ WF_vars(DecodeWhileTest) /\ WF_vars(DecodeGroup)

\* timers that are due fire and the clock advances (the event loop of Node
\* runs a due setTimeout callback; nothing in server.js blocks it)
LiveScheduler ==
  /\ Init /\ [][NextScheduler]_vars
  /\ WF_vars(Tick)
  /\ WF_vars(RebuildTimerFires)

\* ------------------------------------------------------------- properties
\* the checks counted against a counter in its current window: none once the
\* window started more than hourWindow ago
UsedInWindow(obj, t) == IF t - obj.windowStart > hourWindow THEN 0 ELSE obj.count

\* a check-availability request whose contact and location pass validation
IsWellFormedCheck(h) ==
  /\ h.op = "check"
  /\ IsValidContact(h.contact)
  /\ h.locKind \in {"coords", "object", "text"}

\* C1: a well-formed check of one client (ip and contact) is admitted exactly
\* when that client made fewer than cap checks in the current hour window: the
\* first cap checks of a window are admitted, the next one in the same window
\* is rejected with 429, and once the window started more than an hour ago
\* the client is admitted again.
C1_WindowedRateLimit ==
  [][IsWellFormedCheck(hist') =>
       LET ipObj == CounterOf(availabilityCounters, hist'.ip, now)
           cObj == CounterOf(availabilityContactCounters, ContactKey(hist'.contact), now)
       IN  (hist'.status # 429) <=>
             /\ UsedInWindow(ipObj, now) < AVAILABILITY_LIMIT_PER_HOUR
             /\ UsedInWindow(cObj, now) < AVAILABILITY_LIMIT_PER_CONTACT_PER_HOUR]_vars

\* C2: an admitted check with a valid contact and a parseable location
\* (coordinates, or a place name the free provider can resolve) is answered
\* with 200 whatever the primary provider does (unavailable, failing, over
\* its daily budget, or not configured).
C2_NoProviderErrorReachesUser ==
  /\ IsWellFormedCheck(hist)
  /\ hist.status # 429
  /\ (hist.locKind = "text" => hist.freeProviderFinds)
  => hist.status = 200

\* C7: the polylines of routePolylinesCache consulted to answer a proximity
\* check were built at most TTL + sweep interval (2 h + 2 h) before the check.
C7_ConsultedPolylineIsFresh ==
  hist.op = "check" /\ hist.status = 200 =>
    hist.polylineAge <= ROUTE_CACHE_REFRESH_HOURS + ROUTE_CACHE_REFRESH_HOURS

\* C3 as stated: a rebuildAll that serves rebuild signals
\* (scheduleRouteCacheRebuild(false)) starts one cooldown after the last of
\* those signals, never earlier.
C3_StartsOneCooldownAfterLastSignal ==
  hist.op = "rebuildStart" /\ ~hist.immediate =>
    _lastRouteBuildTs >= hist.lastSignalTs + ROUTE_BUILD_COOLDOWN_MS

\* C3, amended: the signals that arrive while a timer is pending are served
\* by that one timer and so by exactly one rebuildAll; the timer is due at
\* the later of the last signal and one cooldown after the previous
\* rebuildAll started, and the rebuildAll starts no earlier than that.
C3_CoalescedIntoOneRebuild ==
  /\ (_routeRebuildTimer = NoTimer) <=> (schedHist.pending = 0)
  /\ _routeRebuildTimer # NoTimer =>
       _routeRebuildTimer =
         IF schedHist.immediate THEN schedHist.lastSignalTs
         ELSE Max(schedHist.lastSignalTs, _lastRouteBuildTs + ROUTE_BUILD_COOLDOWN_MS)
  /\ hist.op = "rebuildStart" =>
       /\ hist.served >= 1
       /\ _lastRouteBuildTs = now
       /\ now >= hist.due

\* several signals inside the cooldown after a rebuild were served by one
\* rebuildAll, started one cooldown after the previous one
C3_Witness ==
  /\ hist.op = "rebuildStart"
  /\ ~hist.immediate /\ ~hist.first
  /\ hist.served >= 2
  /\ hist.lastSignalTs < hist.due
  /\ hist.due = hist.prevBuildTs + ROUTE_BUILD_COOLDOWN_MS

\* C4: two consecutive starts of rebuildAll by the scheduler are at least
\* ROUTE_BUILD_COOLDOWN_MS apart, whatever the signals (admin rebuild-routes
\* included).
C4_StartsOneCooldownApart ==
  hist.op = "rebuildStart" /\ ~hist.first =>
    _lastRouteBuildTs - hist.prevBuildTs >= ROUTE_BUILD_COOLDOWN_MS

\* C5: every rebuild signal is eventually followed by a start of rebuildAll,
\* even when further signals keep replacing the pending timer.
C5_SignalLeadsToRebuild ==
  (schedHist.pending > 0) ~> (hist.op = "rebuildStart")

\* a rebuildAll started after a later signal had replaced the pending timer
C5_Witness ==
  /\ hist.op = "rebuildStart"
  /\ hist.served >= 2
  /\ hist.lastSignalTs > StartTime

\* C6: when an admin create, update or delete of a bus has been handled, a
\* rebuild timer is pending (the handler signalled the scheduler).
C6_MutationSignalsRebuild ==
  /\ hist.op = "admin"
  /\ hist.verb \in {"create", "update", "delete"}
  /\ hist.status = 200
  => _routeRebuildTimer # NoTimer

\* C8 as stated: getRouteFromCache returns the stored route only while the
\* entry's age (now - updatedAt) is below the TTL of 2 hours.
C8_ReturnedOnlyBelowTTL ==
  hist.op = "get" /\ hist.returned => hist.age < ROUTE_CACHE_REFRESH_HOURS

\* C8, amended: getRouteFromCache returns the stored route exactly when the
\* read succeeds, an entry exists and its age is at most the TTL (an entry of
\* age exactly TTL is still returned); otherwise it returns absent.
C8_ReturnedUpToTTL ==
  hist.op = "get" =>
    /\ hist.returned <=>
         (hist.dbOk /\ hist.present /\ hist.age <= ROUTE_CACHE_REFRESH_HOURS)
    /\ hist.returned => hist.data = hist.stored
    /\ ~hist.returned => hist.data = << >>

\* an entry of age exactly TTL was looked up and returned
C8_Witness ==
  /\ hist.op = "get"
  /\ hist.present /\ hist.age = ROUTE_CACHE_REFRESH_HOURS
  /\ hist.returned /\ hist.data = hist.stored

\* C9: when the daily budget check answers false, forward geocoding, reverse
\* geocoding and route building send nothing to the primary provider and
\* complete through their fallback (the free provider, when it has an answer,
\* or the straight-line path).
C9_BudgetDeniedFallsBack ==
  /\ hist.op \in {"geocode", "reverse"} /\ hist.budgetDenied =>
       /\ hist.googleCalls = 0
       /\ hist.freeProviderFinds => hist.kind = "value"
  /\ hist.op = "rebuildStart" /\ hist.budgetDenied => hist.googleCalls = 0

\* C10: checkAndIncrementGoogleUsage answers false and leaves the count as it
\* is once the day's count reached the limit, otherwise answers true and adds
\* exactly one; the count restarts from zero on a new calendar day; so
\* 0 <= count <= limit always, and at most limit requests go to the provider
\* per calendar day.
C10_DailyBudgetRespected ==
  /\ googleUsage.count \in 0..GOOGLE_MAPS_DAILY_LIMIT
  /\ providerCalls.n \in 0..GOOGLE_MAPS_DAILY_LIMIT
  /\ LET r == checkAndIncrementGoogleUsage(googleUsage, now)
         before == IF googleUsage.date = DateOf(now) THEN googleUsage.count ELSE 0
     IN  /\ r.usage.date = DateOf(now)
         /\ IF before >= GOOGLE_MAPS_DAILY_LIMIT
              THEN ~r.ok /\ r.usage.count = before
              ELSE r.ok /\ r.usage.count = before + 1

\* on the second calendar day the count restarted, reached the limit again
\* and a call was denied
C10_Witness ==
  /\ googleUsage.date = DateOf(StartTime) + 1
  /\ googleUsage.count = GOOGLE_MAPS_DAILY_LIMIT
  /\ providerCalls = [date |-> googleUsage.date, n |-> GOOGLE_MAPS_DAILY_LIMIT]
  /\ hist.op \in {"geocode", "reverse"} /\ hist.budgetDenied

\* C11: on a cache miss with the primary provider failing (request error),
\* over its daily quota or answering without results, geocodeLocation asks
\* the free provider, and returns the free provider's result if it has one.
C11_FallsBackToFreeProvider ==
  hist.op = "geocode" /\ hist.primary \in {"denied", "ZERO_RESULTS", "NETWORK_ERROR"} =>
    /\ hist.nominatimCalls = 1
    /\ hist.freeProviderFinds =>
         hist.kind = "value" /\ hist.value = NominatimGeocodeResult(hist.text)

\* C12: geocodeLocation never completes without a location: it returns a
\* result or fails, so POST /api/geocode answers 200 only with a location.
C12_ResolvesOrFails ==
  hist.op = "geocode" =>
    /\ hist.kind \in {"value", "throw"}
    /\ hist.status = 200 <=> hist.kind = "value"

\* two consecutive geocodeLocation calls for texts with one cache key, the
\* first made in the state before the step, the second by the step
ConsecutiveForwardCalls ==
  /\ hist.op = "geocode" /\ hist'.op = "geocode"
  /\ NormalizeKey(hist.text) = NormalizeKey(hist'.text)

\* the second of two calls returned what the first returned
SameResult(h1, h2) ==
  /\ h1.kind = h2.kind
  /\ h1.kind = "value" => h1.value = h2.value

\* C13 as stated: for any text, the second of two consecutive forward calls
\* returns what the first returned, sends nothing to a provider and consumes
\* no daily budget.
C13_SecondCallAlwaysFree ==
  [][ConsecutiveForwardCalls =>
       /\ SameResult(hist, hist')
       /\ hist'.googleCalls = 0 /\ hist'.nominatimCalls = 0
       /\ googleUsage' = googleUsage]_vars

\* C13, amended: when the first call returned a location, the second call
\* (for the same text or one equal after trim and lower-case) returns the
\* identical location from the cache, sends nothing to a provider, consumes
\* no daily budget and leaves the cache as it is.
C13_SecondCallFreeAfterSuccess ==
  [][ConsecutiveForwardCalls /\ hist.kind = "value" =>
       /\ SameResult(hist, hist')
       /\ hist'.primary = "hit"
       /\ hist'.googleCalls = 0 /\ hist'.nominatimCalls = 0
       /\ googleUsage' = googleUsage
       /\ geocodeCache' = geocodeCache]_vars

\* a lookup of the padded, lower-case text was served from the cache entry
\* its normalised key shares, without a provider call
C13_Witness ==
  /\ hist.op = "geocode" /\ hist.text = " benz circle "
  /\ hist.primary = "hit" /\ hist.kind = "value"
  /\ hist.googleCalls = 0 /\ hist.nominatimCalls = 0
  /\ geocodeCache["benz circle"] = hist.value

\* C14: reverse geocoding of valid coordinates never fails and never comes
\* back empty: POST /api/reverse-geocode answers 200 with an address, asking
\* the free provider when the primary provider fails or is over budget.
C14_ReverseNeverFails ==
  hist.op = "reverse" =>
    /\ hist.kind = "value" /\ hist.status = 200
    /\ hist.primary \in {"denied", "ZERO_RESULTS", "NETWORK_ERROR"} => hist.nominatimCalls = 1

\* the stops of one direction of a bus and the cached path built for it
StopsOf(bus, p) == IF p = "MORNING" THEN bus.morning ELSE bus.evening
RouteOf(entry, p) == IF p = "MORNING" THEN entry.morningRoute ELSE entry.eveningRoute

\* C15: when the routing provider is unavailable (no key, daily budget used
\* up, or the request for the direction fails), the path rebuildAll stores
\* for a direction is exactly its stops in order: empty for 0 stops, one
\* point for 1 stop, origin-waypoints-destination for 2 or more; directions
\* of fewer than two stops are stored that way whatever the provider does.
C15_StraightLineFallbackIsTheStops ==
  hist.op = "rebuildStart" =>
    \A b \in DOMAIN buses : \A p \in Periods :
      /\ b \in DOMAIN routePolylinesCache
      /\ \/ ~GOOGLE_MAPS_KEY
         \/ hist.budgetDenied
         \/ hist.dOut[p] = "ERROR"
         \/ Len(StopsOf(buses[b], p)) <= 1
         => RouteOf(routePolylinesCache[b], p) = StopsOf(buses[b], p)

\* a three-stop direction whose stops are not in coordinate order was built
\* while the provider's request failed or the budget was used up
C15_Witness ==
  /\ hist.op = "rebuildStart" /\ GOOGLE_MAPS_KEY
  /\ hist.budgetDenied \/ hist.dOut["EVENING"] = "ERROR"
  /\ \E b \in DOMAIN buses :
       /\ buses[b].evening = <<12, 2, 4>>
       /\ routePolylinesCache[b].eveningRoute = <<12, 2, 4>>

\* the stops of a direction that lie within the radius of the user location
NearCount(stops, userLocation, radiusMeters) ==
  Cardinality({i \in 1..Len(stops) : getDistance(userLocation, stops[i]) <= radiusMeters})

C17_IncludedIffEitherDirectionIntersects ==
  hist.op = "find" =>
    /\ hist.results = {b \in DOMAIN buses : \E p \in Periods : hist.checks[b][p].intersects}
    /\ DOMAIN hist.report = hist.results
    /\ \A b \in hist.results :
         LET hit == {p \in Periods : hist.checks[b][p].intersects}
             Count(p) == IF p \in hit
                           THEN NearCount(StopsOf(buses[b], p), hist.userLocation,
                                          hist.radiusMeters)
                           ELSE 0
         IN  /\ DOMAIN hist.report[b].routeDetails = hit
             /\ \A p \in hit : hist.report[b].routeDetails[p] = hist.checks[b][p].routePath
             /\ \A p \in hit : hist.checks[b][p].stopCount = Count(p)
             /\ hist.report[b].totalNearbyStops = Count("MORNING") + Count("EVENING")

\* one call reported a bus for both directions (1 + 3 stops within 4 km of
\* position 8) and another bus, or the same call, for one direction only
C17_Witness ==
  /\ hist.op = "find"
  /\ \E b \in hist.results :
       /\ DOMAIN hist.report[b].routeDetails = Periods
       /\ hist.report[b].totalNearbyStops = 4
  /\ \E b \in hist.results : DOMAIN hist.report[b].routeDetails = {"MORNING"}

\* C18: with the buses, the polyline cache and the budget as they are, every
\* bus and every direction findNearbyBusesDb reports as intersecting at a
\* radius is reported at every larger radius too.
C18_MonotoneInRadius ==
  \A userLocation \in UserLocations, dOut \in [Periods -> DirectionsOutcomes] :
    \A r1 \in Radii, r2 \in Radii :
      r1 <= r2 =>
        \A f1 \in {findNearbyBusesDb(DOMAIN buses, buses, userLocation, r1, routePolylinesCache,
                                     googleUsage, GOOGLE_MAPS_KEY, now, dOut)},
           f2 \in {findNearbyBusesDb(DOMAIN buses, buses, userLocation, r2, routePolylinesCache,
                                     googleUsage, GOOGLE_MAPS_KEY, now, dOut)} :
          /\ f1.results \subseteq f2.results
          /\ \A b \in DOMAIN buses : \A p \in Periods :
               f1.checks[b][p].intersects => f2.checks[b][p].intersects

\* after a call with the 4 km radius that reported a bus for both directions:
\* from position 8 the 1.5 km radius reports it for one direction only, the
\* 4 km radius for both
C18_Witness ==
  /\ hist.op = "find" /\ hist.radiusMeters = 4000 /\ hist.results # {}
  /\ \E dOut \in [Periods -> DirectionsOutcomes] :
     \E f1 \in {findNearbyBusesDb(DOMAIN buses, buses, 8, RadiusMeters, routePolylinesCache,
                                  googleUsage, GOOGLE_MAPS_KEY, now, dOut)},
        f2 \in {findNearbyBusesDb(DOMAIN buses, buses, 8, 4000, routePolylinesCache,
                                  googleUsage, GOOGLE_MAPS_KEY, now, dOut)} :
       \E b \in f1.results :
         /\ ~f1.checks[b]["MORNING"].intersects /\ f1.checks[b]["EVENING"].intersects
         /\ f2.checks[b]["MORNING"].intersects /\ f2.checks[b]["EVENING"].intersects

\* C19: a proximity check that finds no usable cached polyline for a
\* direction of two or more stops generates the path and stores it in
\* routePolylinesCache, where the next check finds it.
C19_GeneratedPathIsCached ==
  hist.op = "find" =>
    \A bp \in hist.built :
      /\ bp[1] \in DOMAIN routePolylinesCache
      /\ RouteOf(routePolylinesCache[bp[1]], bp[2]) = hist.checks[bp[1]][bp[2]].routePath

\* a step that is a rebuildAll sweep
IsSweep == _routeRebuildTimer # NoTimer /\ _routeRebuildTimer' = NoTimer

\* C20: in a rebuildAll sweep a bus whose build fails does not end the
\* sweep: every other stored bus gets a freshly built entry (each direction
\* its stops or the road path through them), the failing bus's cache entry
\* stays as it was (present or absent), and saveRouteCacheToDisk still
\* runs, writing the whole cache unless the write itself fails.
C20_FailureDoesNotAbortSweep ==
  [][IsSweep =>
       /\ hist'.failed \subseteq DOMAIN buses
       /\ \A b \in DOMAIN buses \ hist'.failed :
            /\ b \in DOMAIN routePolylinesCache'
            /\ polylineBuiltAt'[b] = now
            /\ \A p \in Periods :
                 RouteOf(routePolylinesCache'[b], p) \in
                   {StopsOf(buses[b], p), RoadPath(StopsOf(buses[b], p))}
       /\ \A b \in hist'.failed :
            /\ b \in DOMAIN routePolylinesCache' <=> b \in DOMAIN routePolylinesCache
            /\ b \in DOMAIN routePolylinesCache =>
                 /\ routePolylinesCache'[b] = routePolylinesCache[b]
                 /\ polylineBuiltAt'[b] = polylineBuiltAt[b]
       /\ hist'.diskOk => loadRouteCacheFromDisk(EmptyMap, routeCacheFile') = routePolylinesCache'
       /\ ~hist'.diskOk => routeCacheFile' = routeCacheFile]_vars

\* a sweep in which the build of bus 1 failed while the routing requests
\* failed too: its entry is still the road path of an earlier sweep, bus 2
\* (visited after it) got its straight path in this sweep, and the file
\* holds both
C20_Witness ==
  /\ hist.op = "rebuildStart" /\ hist.failed = {1} /\ hist.diskOk
  /\ hist.dOut = [p \in Periods |-> "ERROR"]
  /\ {1, 2} \subseteq DOMAIN buses
  /\ {1, 2} \subseteq DOMAIN routePolylinesCache
  /\ routePolylinesCache[1].morningRoute = RoadPath(buses[1].morning)
  /\ routePolylinesCache[2].eveningRoute = <<12, 2, 4>>
  /\ loadRouteCacheFromDisk(EmptyMap, routeCacheFile) = routePolylinesCache

IpCounter(h) == CounterOf(availabilityCounters, h.ip, now)
ContactCounter(h) == CounterOf(availabilityContactCounters, ContactKey(h.contact), now)

\* C22: a check is rejected by the governor (429) iff the requesting IP has
\* reached the per-IP cap in its current hour window or the contact has
\* reached the per-contact cap in its window, either alone sufficing; a check
\* that is admitted and passes validation counts as one more check of the
\* window for the IP and for the contact.
C22_EitherCapRejects ==
  [][hist'.op = "check" =>
       /\ hist'.status = 429 <=>
            \/ UsedInWindow(IpCounter(hist'), now) >= AVAILABILITY_LIMIT_PER_HOUR
            \/ /\ hist'.contact # NoContact
               /\ UsedInWindow(ContactCounter(hist'), now)
                    >= AVAILABILITY_LIMIT_PER_CONTACT_PER_HOUR
       /\ hist'.status # 429 /\ IsValidContact(hist'.contact) /\ hist'.locKind # "missing" =>
            /\ availabilityCounters'[hist'.ip].count
                 = UsedInWindow(IpCounter(hist'), now) + 1
            /\ availabilityContactCounters'[ContactKey(hist'.contact)].count
                 = UsedInWindow(ContactCounter(hist'), now) + 1]_vars

\* C23: a check rejected as rate-limited or as malformed (contact missing
\* or invalid, location missing or of a format that cannot be parsed) leaves
\* the per-IP and the per-contact counters as they were.
C23_RejectedChecksAreNotCounted ==
  [][/\ hist'.op = "check"
     /\ \/ hist'.status = 429
        \/ ~IsValidContact(hist'.contact)
        \/ hist'.locKind \in {"missing", "badformat"}
     => UNCHANGED << availabilityCounters, availabilityContactCounters >>]_vars

\* C24: login attempts of one IP follow the window limiter.  Within
\* LOGIN_WINDOW_MS of the window's first attempt the first LOGIN_MAX_ATTEMPTS
\* attempts are processed and every further one is answered 429; an attempt,
\* rejected or not, leaves the window's start where it was; the first attempt
\* made more than LOGIN_WINDOW_MS after the window's first attempt starts a
\* new window and is processed.
C24_LoginWindowLimiter ==
  [][hist'.op = "login" =>
       LET inWindow == hist'.seen /\ now - hist'.prevFirstTs <= LOGIN_WINDOW_MS
           rec == loginAttempts'[hist'.ip]
       IN  /\ inWindow =>
                /\ hist'.status = 429 <=> hist'.prevCount >= LOGIN_MAX_ATTEMPTS
                /\ rec.firstTs = hist'.prevFirstTs
                /\ rec.count = hist'.prevCount + 1
           /\ ~inWindow =>
                /\ hist'.status # 429
                /\ rec.firstTs = now
                /\ rec.count = 1]_vars

\* an attempt made more than a window after the first attempt of a window
\* in which the ip had been blocked was processed and starts a new window
C24_Witness ==
  /\ hist.op = "login" /\ hist.status = 200
  /\ hist.seen /\ hist.prevCount > LOGIN_MAX_ATTEMPTS
  /\ now - hist.prevFirstTs > LOGIN_WINDOW_MS
  /\ loginAttempts[hist.ip] = [count |-> 1, firstTs |-> now]

\* C25: decodePolyline inverts the polyline encoding: for every path of
\* points on the 1e-5 degree grid, with positive and negative coordinates,
\* decoding its encoding gives the same points in order, each with the
\* cumulative latitude and longitude.
C25_DecodeInvertsEncode ==
  hist.op = "decode" =>
    /\ hist.decoded = hist.points
    /\ \A i \in 1..Len(hist.encoded) : hist.encoded[i] \in 63..126

\* the path (38.5, -120.2), (40.7, -120.95), whose encoding is the string
\* "_p~iF~ps|U_ulLnnqC", was decoded
C25_Witness ==
  /\ hist.op = "decode"
  /\ hist.points = << [lat |-> 3850000, lng |-> -12020000],
                      [lat |-> 4070000, lng |-> -12095000] >>
  /\ hist.encoded = << 95, 112, 126, 105, 70, 126, 112, 115, 124, 85,
                       95, 117, 108, 76, 110, 110, 113, 67 >>
  /\ hist.decoded = hist.points

\* ---------------------------------------------------------------------------
\* C26: among several candidates of the primary geocoder the chosen one
\* follows both > state-only > city-only > first result, for every combination
\* of configured preferences.
MatchesState(h, i) == hasPref(toLowerCase(h.statePref), h.results[i])
MatchesCity(h, i) == hasPref(toLowerCase(h.cityPref), h.results[i])
C26_PriorityOrder ==
  hist.op = "choose" =>
    LET idx == 1..Len(hist.results)
        c == hist.chosen
    IN IF \E i \in idx : MatchesState(hist, i) /\ MatchesCity(hist, i)
         THEN MatchesState(hist, c) /\ MatchesCity(hist, c)
       ELSE IF \E i \in idx : MatchesState(hist, i)
         THEN MatchesState(hist, c)
       ELSE IF \E i \in idx : MatchesCity(hist, i)
         THEN MatchesCity(hist, c)
       ELSE c = 1

\* C26, the part that holds: when at most one preference is configured, or a
\* candidate matches both, the priority order is followed.
C26_PriorityOrderSinglePreference ==
  (hist.op = "choose" /\ (hist.statePref = "" \/ hist.cityPref = ""
                           \/ \E i \in 1..Len(hist.results) :
                                MatchesState(hist, i) /\ MatchesCity(hist, i)))
    => C26_PriorityOrder

\* ---------------------------------------------------------------------------
\* C27: the stop count of an intersecting direction is the number of that
\* direction's declared stops within radiusMeters of the user, whatever the
\* polyline's points are (0 when only a polyline vertex is within the radius);
\* a direction that does not intersect has stop count 0.
C27_StopCountCountsDeclaredStops ==
  hist.op = "find" =>
    \A b \in DOMAIN buses : \A p \in Periods :
      hist.checks[b][p].stopCount =
        IF hist.checks[b][p].intersects
          THEN Cardinality({i \in 1..Len(StopsOf(buses[b], p)) :
                 getDistance(hist.userLocation, StopsOf(buses[b], p)[i]) <= hist.radiusMeters})
          ELSE 0

\* an intersecting direction none of whose declared stops is within the
\* radius, while a vertex of its road path is
C27_Witness ==
  /\ hist.op = "find" /\ hist.userLocation = 8 /\ hist.radiusMeters = RadiusMeters
  /\ \E b \in DOMAIN buses :
       /\ buses[b].evening = <<12, 2, 4>>
       /\ hist.checks[b]["EVENING"].intersects
       /\ hist.checks[b]["EVENING"].stopCount = 0
       /\ \A i \in 1..3 : getDistance(8, buses[b].evening[i]) > RadiusMeters
       /\ \E i \in 1..Len(hist.checks[b]["EVENING"].routePath) :
            getDistance(8, hist.checks[b]["EVENING"].routePath[i]) <= RadiusMeters

\* ---------------------------------------------------------------------------
\* C28: isPathIntersectsCircle is true iff a point of the path is within the
\* circle or a segment between consecutive points passes within the radius,
\* so also for a path whose segment crosses the circle while no vertex is
\* inside it.
\* the least distance from u to the segment between a and b
SegmentDistance(a, b, u) ==
  IF Min(a, b) <= u /\ u <= Max(a, b) THEN 0
  ELSE Min(getDistance(a, u), getDistance(b, u))
C28_SegmentsCount ==
  (hist.op = "intersects" /\ \A i \in 1..Len(hist.path) : ~isNaN(hist.path[i])) =>
    (hist.intersects <=>
       \/ \E i \in 1..Len(hist.path) :
            getDistance(hist.path[i], hist.userLocation) <= hist.radiusMeters
       \/ \E i \in 1..(Len(hist.path) - 1) :
            SegmentDistance(hist.path[i], hist.path[i + 1], hist.userLocation)
              <= hist.radiusMeters)

\* C28, what the code does: only the points are looked at.
C28_PointsOnly ==
  hist.op = "intersects" =>
    (hist.intersects <=>
       \E i \in 1..Len(hist.path) :
         ~isNaN(hist.path[i])
           /\ getDistance(hist.path[i], hist.userLocation) <= hist.radiusMeters)

\* ---------------------------------------------------------------------------
\* C29: the forward and the reverse geocode cache hold successful resolutions
\* only: every entry is a location or an address a provider answered, a lookup
\* that failed leaves no entry under its key, and the next lookup of that key
\* is not answered from the cache but goes to the providers again (unless the
\* daily budget of the keyed provider refuses the call).
C29_CachesHoldSuccessesOnly ==
  /\ \A k \in DOMAIN geocodeCache :
       geocodeCache[k] \in {GoogleGeocodeResult(k), NominatimGeocodeResult(k)}
  /\ \A k \in DOMAIN reverseGeocodeCache :
       reverseGeocodeCache[k] \in {"formatted_address", "display_name"}
  /\ (hist.op = "geocode" /\ hist.kind # "value")
       => NormalizeKey(hist.text) \notin DOMAIN geocodeCache
  /\ (hist.op = "reverse" /\ hist.kind # "value")
       => hist.lat \notin DOMAIN reverseGeocodeCache
  /\ (hist.op \in {"geocode", "reverse"} /\ hist.afterFailure)
       => /\ hist.primary # "hit"
          /\ hist.googleCalls + hist.nominatimCalls > 0 \/ hist.budgetDenied

\* a lookup the free provider answers right after a lookup of the same name
\* failed, with an earlier resolution in the reverse cache
C29_Witness ==
  /\ hist.op = "geocode" /\ hist.afterFailure
  /\ hist.kind = "value" /\ hist.nominatimCalls = 1
  /\ NormalizeKey(hist.text) \in DOMAIN geocodeCache
  /\ reverseGeocodeCache # EmptyMap

\* ---------------------------------------------------------------------------
\* C30: a proximity check starts no rebuild and leaves the last rebuild time
\* and the pending timer as they are; every step that changes one of the two
\* is scheduleRouteCacheRebuild (the timer is set anew from the signal's time
\* and the last rebuild time) or the timer's callback (the timer is cleared
\* and the last rebuild time becomes the current time).
C30_DebounceStateIsSingleOwner ==
  [][ /\ hist'.op = "find" =>
           /\ UNCHANGED << _lastRouteBuildTs, _routeRebuildTimer, schedHist >>
           /\ UNCHANGED << routePolylinesCache, polylineBuiltAt, routeCacheFile >>
      /\ << _lastRouteBuildTs, _routeRebuildTimer >>' # << _lastRouteBuildTs, _routeRebuildTimer >> =>
           \/ /\ hist'.op \in {"signal", "admin"}
              /\ _lastRouteBuildTs' = _lastRouteBuildTs
              /\ \E immediate \in BOOLEAN :
                   _routeRebuildTimer' = scheduleRouteCacheRebuild(immediate, now, _lastRouteBuildTs)
           \/ /\ hist'.op = "rebuildStart"
              /\ _routeRebuildTimer # NoTimer /\ now >= _routeRebuildTimer
              /\ _routeRebuildTimer' = NoTimer
              /\ _lastRouteBuildTs' = now ]_vars

\* a proximity check that generated a path with the provider while a rebuild
\* asked for after an earlier rebuild was pending and due
C30_Witness ==
  /\ hist.op = "find" /\ hist.googleCalls > 0
  /\ _lastRouteBuildTs > 0
  /\ _routeRebuildTimer # NoTimer /\ now >= _routeRebuildTimer
  /\ schedHist.pending > 0

\* ---------------------------------------------------------------------------
\* C31: in every reachable state, whatever the interleaving of the requests
\* being served, every per-IP counter is at most AVAILABILITY_LIMIT_PER_HOUR
\* and every per-contact counter at most
\* AVAILABILITY_LIMIT_PER_CONTACT_PER_HOUR.
C31_CountersNeverExceedCaps ==
  /\ \A ip \in DOMAIN availabilityCounters :
       availabilityCounters[ip].count <= AVAILABILITY_LIMIT_PER_HOUR
  /\ \A c \in DOMAIN availabilityContactCounters :
       availabilityContactCounters[c].count <= AVAILABILITY_LIMIT_PER_CONTACT_PER_HOUR

\* two requests arrived while a slot was free; one took the last slot and is
\* still being served, the other was refused when its handler ran
C31_Witness ==
  /\ hist.op = "handler" /\ hist.status = 429 /\ hist.freeAtArrival
  /\ \E r \in Requests :
       /\ inflight[r].pc = "awaiting"
       /\ inflight[r].ip = hist.ip
       /\ availabilityCounters[hist.ip].count = AVAILABILITY_LIMIT_PER_HOUR
            \/ (ContactKey(inflight[r].contact) = hist.contact
                /\ availabilityContactCounters[hist.contact].count
                     = AVAILABILITY_LIMIT_PER_CONTACT_PER_HOUR)

Own(map, key) == Restrict(map, DOMAIN map \cap {key})
C33_OtherRequestsDoNotInterfere ==
  [][ \A ip \in ManyIPs, c \in {ContactKey(x) : x \in RawContacts} :
        /\ isAvailabilityAllowed(availabilityCounters, availabilityContactCounters, ip, c, now)
             = isAvailabilityAllowed(Own(availabilityCounters, ip),
                                     Own(availabilityContactCounters, c), ip, c, now)
        /\ (hist'.op = "check" /\ hist'.ip # ip /\ ContactKey(hist'.contact) # c) =>
             /\ Own(availabilityCounters', ip) = Own(availabilityCounters, ip)
             /\ Own(availabilityContactCounters', c) = Own(availabilityContactCounters, c)
             /\ isAvailabilityAllowed(availabilityCounters', availabilityContactCounters',
                                      ip, c, now')
                  = isAvailabilityAllowed(availabilityCounters, availabilityContactCounters,
                                          ip, c, now) ]_vars

\* a request of ip2 with the phone number is admitted while the e-mail contact
\* used from ip1 is at its cap
C33_Witness ==
  /\ hist.op = "check" /\ hist.ip = "ip2" /\ hist.contact = "9000000001" /\ hist.status = 200
  /\ "ip1" \in DOMAIN availabilityCounters
  /\ "a@x.io" \in DOMAIN availabilityContactCounters
  /\ availabilityContactCounters["a@x.io"].count = AVAILABILITY_LIMIT_PER_CONTACT_PER_HOUR
  /\ ~isAvailabilityAllowed(availabilityCounters, availabilityContactCounters, "ip1", "a@x.io",
                            now)

\* ---------------------------------------------------------------------------
\* C34: no step of the running process removes a key from the in-memory
\* polyline cache; a sweep adds or overwrites only entries of buses that exist
\* when it runs; so the entry of a deleted bus stays in memory, unchanged, and
\* is in every snapshot saved afterwards.
C34_NoKeyIsEverRemoved ==
  [][ /\ DOMAIN routePolylinesCache \subseteq DOMAIN routePolylinesCache'
      /\ \A b \in DOMAIN routePolylinesCache' :
           (b \notin DOMAIN routePolylinesCache \/ routePolylinesCache'[b] # routePolylinesCache[b])
             => (hist'.op = "rebuildStart" /\ b \in DOMAIN buses)
      /\ routeCacheFile' # routeCacheFile =>
           loadRouteCacheFromDisk(EmptyMap, routeCacheFile') = routePolylinesCache' ]_vars

\* a sweep ran and saved after a bus was deleted: the bus is gone from the
\* database, its entry is in memory and in the saved snapshot
C34_Witness ==
  /\ hist.op = "rebuildStart" /\ hist.diskOk
  /\ \E b \in DOMAIN routePolylinesCache :
       /\ b \notin DOMAIN buses
       /\ String(b) \in DOMAIN routeCacheFile
  /\ DOMAIN buses # {}

\* ---------------------------------------------------------------------------
\* C35: a check-availability request whose location is a place name takes at
\* most one unit of the daily budget for forward geocoding, whatever the
\* primary provider answers.
C35_AtMostOneGeocodeUnitPerRequest ==
  (hist.op = "check" /\ hist.locKind = "text") => hist.geocodeUnits <= 1

\* C35, what holds: such a request takes at most two units.
C35_AtMostTwoGeocodeUnitsPerRequest ==
  (hist.op = "check" /\ hist.locKind = "text") => hist.geocodeUnits <= 2

C36_WitnessNoUsablePoint ==
  /\ hist.op = "intersects" /\ hist.path = << NaN, NaN >>
  /\ ~hist.intersects /\ hist.minDist = Infinity

\* ---------------------------------------------------------------------------
\* C37: for every sequence of login attempts, clock ticks and sweeps, every
\* attempt is answered as it is in the run of the same attempts at the same
\* times without any sweep (unsweptLoginAttempts is the map of that run), and
\* the record it leaves is the record of that run; a record the sweep has
\* deleted is one whose window is over in that run.
C37_SweepIsTransparent ==
  /\ hist.op = "login" =>
       /\ hist.status = hist.unsweptStatus
       /\ loginAttempts[hist.ip] = unsweptLoginAttempts[hist.ip]
  /\ \A ip \in DOMAIN unsweptLoginAttempts :
       IF ip \in DOMAIN loginAttempts
         THEN loginAttempts[ip] = unsweptLoginAttempts[ip]
         ELSE now - unsweptLoginAttempts[ip].firstTs > LOGIN_WINDOW_MS
  /\ DOMAIN loginAttempts \subseteq DOMAIN unsweptLoginAttempts

\* an attempt made after the sweep deleted the record of a blocked address:
\* it is accepted for counting, as it is without the sweep
C37_Witness ==
  /\ hist.op = "login" /\ hist.swept
  /\ hist.unsweptPrevCount > LOGIN_MAX_ATTEMPTS
  /\ hist.status # 429 /\ hist.unsweptStatus = hist.status

\* ---------------------------------------------------------------------------
\* C38: decodePolyline returns on every string, malformed and truncated ones
\* included: every pass through a do-while moves index forward by one, index
\* never passes the length by more than 2, the points collected are at most
\* half the string length rounded up, and every call reaches its return.
Running == decoder.pc \in {"while", "latLoop", "lngLoop"}
C38_DecodeAlwaysReturns ==
  /\ [](decoder.pc # "idle" =>
          /\ decoder.index <= Len(decoder.encoded) + 2
          /\ 2 * Len(decoder.coords) <= Len(decoder.encoded) + 1)
  /\ [][(Running /\ hist'.op = "decodeGroup") => decoder'.index = decoder.index + 1]_vars
  /\ (Running ~> decoder.pc = "done")

\* the call returned for a string of three characters that ends inside the
\* latitude of its second point: two points, both numbers of the second
\* completed by reads past the end
C38_Witness ==
  /\ decoder.pc = "done" /\ decoder.encoded = << 63, 63, 95 >>
  /\ Len(decoder.coords) = 2 /\ decoder.index = 5

====
